---- MODULE Spec2Model ----
(***************************************************************************)
(* LedEngine (src/LedEngine.h, src/LedEngine.cpp): an RGB LED driver that  *)
(* turns a CIE 1976 UCS target or a colour temperature into three PWM duty *)
(* cycles.                                                                 *)
(*                                                                         *)
(* Numbers.  The engine computes in float and double (IEEE 754 binary32    *)
(* and binary64, round to nearest even), and so does the model, bit for    *)
(* bit.  A finite number other than zero is <<s, e, h, l>>: sign s (1 or   *)
(* -1) and the value s * (h * 2^28 + l) * 2^e, the 53 bits of a double     *)
(* being the upper 53 of the 56 bits h, l (l a multiple of 8).  A normal   *)
(* number has 2^27 <= h < 2^28 and -1077 <= e <= 968; a subnormal one has  *)
(* e = -1077 and h < 2^27.  The two zeros, the two infinities and NaN are  *)
(* the pairs Zero, NegZero, PosInf, NegInf and NaN.  A float is the double *)
(* of the same value: its 24 bits are the upper 24 of h, and l = 0.        *)
(*                                                                         *)
(* An operation computes its exact result as a wide number                 *)
(* <<s, e, h, l, g, t>>, the value s * (h * 2^56 + l * 2^28 + g + r) * 2^e *)
(* with 0 < r < 1 when t = 1 and r = 0 when t = 0, and rounds it once:     *)
(* Double rounds to 53 bits, Float to 24.  TLC's integers are 32 bits      *)
(* wide, hence the 28-bit limbs.                                           *)
(***************************************************************************)
EXTENDS Integers, Sequences, FiniteSets, TLC

P14 == 16384
P27 == 134217728
P28 == 268435456
P30 == 1073741824

\* int is 32 bits wide
IntMax == 2147483647
IntMin == -IntMax - 1

Zero == <<0, 0>>
NegZero == <<0, 1>>
PosInf == <<0, 2>>
NegInf == <<0, 3>>
NaN == <<0, 4>>

Abs(n) == IF n < 0 THEN -n ELSE n

\* C++ evaluates the statements of a function one after the other, and a
\* local variable holds a value before the next statement reads it: the
\* value of a statement f(x) that reads the local x, whose initialiser is e,
\* is Only({f(x) : x \in {e}})
Only(S) == CHOOSE x \in S : TRUE

IsNaN(x) == x = NaN
IsInf(x) == x = PosInf \/ x = NegInf
IsZero(x) == x = Zero \/ x = NegZero
IsFin(x) == ~IsNaN(x) /\ ~IsInf(x)

\* the sign bit of a number that is not NaN
SignOf(x) == IF x[1] < 0 \/ x = NegZero \/ x = NegInf THEN -1 ELSE 1
Inf(s) == IF s < 0 THEN NegInf ELSE PosInf
Zeroed(s) == IF s < 0 THEN NegZero ELSE Zero

\* the number of bits of n >= 0
RECURSIVE BitLen(_)
BitLen(n) ==
    IF n >= P14 THEN 14 + BitLen(n \div P14)
    ELSE IF n >= 128 THEN 7 + BitLen(n \div 128)
    ELSE IF n >= 8 THEN 3 + BitLen(n \div 8)
    ELSE IF n >= 1 THEN 1 + BitLen(n \div 2)
    ELSE 0

\* a wide number n bits to the right; t keeps whether anything was lost
RECURSIVE ShiftRight(_, _)
ShiftRight(w, n) ==
    IF n >= 112
    THEN <<w[1], w[2] + n, 0, 0, 0,
           IF w[3] # 0 \/ w[4] # 0 \/ w[5] # 0 THEN 1 ELSE w[6]>>
    ELSE IF n >= 28
    THEN ShiftRight(<<w[1], w[2] + 28, 0, w[3], w[4], IF w[5] # 0 THEN 1 ELSE w[6]>>,
                    n - 28)
    ELSE LET p == 2^n
             q == 2^(28 - n)
         IN  <<w[1], w[2] + n, w[3] \div p,
               (w[3] % p) * q + (w[4] \div p),
               (w[4] % p) * q + (w[5] \div p),
               IF w[5] % p # 0 THEN 1 ELSE w[6]>>

\* a wide number other than zero with its leading bit brought to the top of
\* h (2^27 <= h < 2^28)
RECURSIVE NormLeft(_)
NormLeft(w) ==
    IF w[3] >= P28 THEN ShiftRight(w, 1)
    ELSE IF w[3] >= P27 THEN w
    ELSE IF w[3] = 0 THEN NormLeft(<<w[1], w[2] - 28, w[4], w[5], 0, w[6]>>)
    ELSE LET n == 28 - BitLen(w[3])
             p == 2^n
             q == 2^(28 - n)
         IN  <<w[1], w[2] - n, w[3] * p + (w[4] \div q),
               (w[4] % q) * p + (w[5] \div q), (w[5] % q) * p, w[6]>>

\* the double <<s, e, h, l>> as a wide number
Wide(x) == NormLeft(<<x[1], x[2] - 28, x[3], x[4], 0, 0>>)

\* s * (h * 2^28 + l + the fraction that g and t stand for) * 2^e rounded to
\* the nearest multiple of 8 * 2^e, ties to even: a double
RoundD(s, e, h, l, g, t) ==
    LET r == l % 8
        up == r > 4 \/ (r = 4 /\ (g > 0 \/ t = 1 \/ (l \div 8) % 2 = 1))
        l1 == l - r + (IF up THEN 8 ELSE 0)
        h1 == IF l1 = P28 THEN h + 1 ELSE h
    IN  IF h1 = 0 /\ l1 = 0 THEN Zeroed(s)
        ELSE IF e + (IF h1 = P28 THEN 1 ELSE 0) > 968 THEN Inf(s)
        ELSE IF h1 = P28 THEN <<s, e + 1, P27, 0>>
        ELSE <<s, e, h1, IF l1 = P28 THEN 0 ELSE l1>>

\* the same to the nearest multiple of 2^32 * 2^e: a float
RoundF(s, e, h, l, g, t) ==
    LET r == h % 16
        up == r > 8 \/ (r = 8 /\ (l # 0 \/ g # 0 \/ t = 1 \/ (h \div 16) % 2 = 1))
        h1 == h - r + (IF up THEN 16 ELSE 0)
    IN  IF h1 = 0 THEN Zeroed(s)
        ELSE IF e + (IF h1 = P28 THEN 1 ELSE 0) > 72 THEN Inf(s)
        ELSE IF h1 = P28 THEN <<s, e + 1, P27, 0>>
        ELSE IF h1 >= P27 THEN <<s, e, h1, 0>>
        ELSE LET n == 28 - BitLen(h1) IN <<s, e - n, h1 * (2^n), 0>>

\* the wide number v rounded at the exponent e of its upper 56 bits
RoundedD(v, e) == RoundD(v[1], e, v[3], v[4], v[5], v[6])
RoundedF(v, e) == RoundF(v[1], e, v[3], v[4], v[5], v[6])

\* a result (a normalised wide number, or a zero, an infinity or NaN) rounded
\* to double; below 2^-1022 the doubles are 2^-1074 apart
Double(w) ==
    IF w[1] = 0 THEN w
    ELSE RoundedD(IF w[2] < -1105 THEN ShiftRight(w, -1105 - w[2]) ELSE w,
                  IF w[2] < -1105 THEN -1077 ELSE w[2] + 28)

\* the same rounded to float; below 2^-126 the floats are 2^-149 apart
Float(w) ==
    IF w[1] = 0 THEN w
    ELSE RoundedF(IF w[2] < -209 THEN ShiftRight(w, -209 - w[2]) ELSE w,
                  IF w[2] < -209 THEN -181 ELSE w[2] + 28)

\* x * y for wide x and y (g = 0, t = 0): the product of the eight 14-bit
\* limbs, of which h, l, g keep the upper 84 bits
MulW(x, y) ==
    LET xa == x[3] \div P14
        xb == x[3] % P14
        xc == x[4] \div P14
        xd == x[4] % P14
        ya == y[3] \div P14
        yb == y[3] % P14
        yc == y[4] \div P14
        yd == y[4] % P14
        c0 == xd * yd
        t1 == xc * yd + xd * yc + (c0 \div P14)
        t2 == xb * yd + xc * yc + xd * yb + (t1 \div P14)
        t3 == xa * yd + xb * yc + xc * yb + xd * ya + (t2 \div P14)
        t4 == xa * yc + xb * yb + xc * ya + (t3 \div P14)
        t5 == xa * yb + xb * ya + (t4 \div P14)
    IN  NormLeft(<<x[1] * y[1], x[2] + y[2] + 84,
                   xa * ya + (t5 \div P14),
                   (t5 % P14) * P14 + (t4 % P14),
                   (t3 % P14) * P14 + (t2 % P14),
                   IF t1 % P14 # 0 \/ c0 % P14 # 0 THEN 1 ELSE 0>>)

MulSpecial(x, y) ==
    IF IsNaN(x) \/ IsNaN(y) THEN NaN
    ELSE IF IsInf(x) \/ IsInf(y)
    THEN (IF IsZero(x) \/ IsZero(y) THEN NaN ELSE Inf(SignOf(x) * SignOf(y)))
    ELSE Zeroed(SignOf(x) * SignOf(y))

\* the exact product
Product(x, y) ==
    IF x[1] # 0 /\ y[1] # 0
    THEN Only({MulW(w[1], w[2]) : w \in {[i \in 1..2 |-> Wide(IF i = 1 THEN x ELSE y)]}})
    ELSE MulSpecial(x, y)

\* |x| >= |y| for doubles other than zero
MagGe(x, y) ==
    x[2] > y[2] \/ (x[2] = y[2] /\ (x[3] > y[3] \/ (x[3] = y[3] /\ x[4] >= y[4])))

\* x + y for doubles with |x| >= |y|; a difference is taken from below when
\* bits of y were shifted out (t = 1), and an exact zero is +0
Aligned(x, a, same) ==
    LET sl == x[4] + a[4]
        g == 0 - a[5] - a[6]
        l == x[4] - a[4] - (IF g < 0 THEN 1 ELSE 0)
        h == x[3] - a[3] - (IF l < 0 THEN 1 ELSE 0)
    IN  IF ~same /\ h = 0 /\ l = 0 /\ g = 0 THEN Zero
        ELSE NormLeft(IF same
                      THEN <<x[1], x[2] - 28, x[3] + a[3] + (IF sl >= P28 THEN 1 ELSE 0),
                             sl % P28, a[5], a[6]>>
                      ELSE <<x[1], x[2] - 28, h, l % P28, g % P28, a[6]>>)

AddW(x, y) ==
    Aligned(x, ShiftRight(<<y[1], y[2] - 28, y[3], y[4], 0, 0>>, x[2] - y[2]), x[1] = y[1])

AddSpecial(x, y) ==
    IF IsNaN(x) \/ IsNaN(y) THEN NaN
    ELSE IF IsInf(x) THEN (IF IsInf(y) /\ x # y THEN NaN ELSE x)
    ELSE IF IsInf(y) THEN y
    ELSE IF IsZero(x) /\ IsZero(y) THEN (IF x = NegZero /\ y = NegZero THEN NegZero ELSE Zero)
    ELSE Wide(IF IsZero(x) THEN y ELSE x)

\* the exact sum
Total(x, y) ==
    IF x[1] # 0 /\ y[1] # 0
    THEN Only({AddW(p[1], p[2]) : p \in {IF MagGe(x, y) THEN <<x, y>> ELSE <<y, x>>}})
    ELSE AddSpecial(x, y)

\* the remainder h * 2^28 + l doubled, next to the bits acc of the quotient
Doubled(acc, h, l) == <<acc, 2 * h + ((2 * l) \div P28), (2 * l) % P28>>

\* what is left after taking q times the divisor, h * 2^28 + l with h < 0
\* when q was one too large: the divisor is then given back
Restored(acc, h, l, dh, dl) ==
    IF h < 0 THEN Doubled(acc - 1, h + dh + ((l + dl) \div P28), (l + dl) % P28)
    ELSE Doubled(acc, h, l)

\* q times the divisor dh * 2^28 + dl taken from nh * 2^28 + nl
Taken(acc, nh, nl, dh, dl, q) ==
    Restored(acc + q,
             nh - q * dh - ((q * dl) \div P28) - (IF nl < (q * dl) % P28 THEN 1 ELSE 0),
             (nl - (q * dl)) % P28, dh, dl)

\* n more bits of the quotient of rh * 2^28 + rl by dh * 2^28 + dl, for
\* r = <<acc, rh, rl>>, acc being the bits so far and the remainder below
\* twice the divisor: the bits are appended to acc and the remainder is
\* doubled n times (a remainder of zero leaves zeros to append).  Up to
\* three bits are found at a time: they are the quotient of the upper
\* words, or one less (dh >= 2^27)
RECURSIVE DivBits(_, _, _, _)
DivBits(r, dh, dl, n) ==
    IF r[2] = 0 /\ r[3] = 0 THEN <<r[1] * (2^n), 0, 0>>
    ELSE IF n > 3
    THEN DivBits(DivBits(r, dh, dl, 3 * (((n + 2) \div 3) \div 2)), dh, dl,
                 n - 3 * (((n + 2) \div 3) \div 2))
    ELSE Only({Taken((2^n) * r[1], nh, ((2^(n - 1)) * r[3]) % P28, dh, dl,
                     IF nh \div dh >= 2^n THEN (2^n) - 1 ELSE nh \div dh) :
               nh \in {(2^(n - 1)) * r[2] + (((2^(n - 1)) * r[3]) \div P28)}})

\* x / y for wide x and y: 58 bits of the quotient by long division
DivW(x, y) ==
    LET lt == x[3] < y[3] \/ (x[3] = y[3] /\ x[4] < y[4])
        m == 2 * x[4]
    IN  Only({Only({Only({<<x[1] * y[1], x[2] - y[2] - 83 - (IF lt THEN 1 ELSE 0), a[1], b[1],
                c[1] * (P28 \div 4), IF c[2] # 0 \/ c[3] # 0 THEN 1 ELSE 0>> :
              c \in {DivBits(<<0, b[2], b[3]>>, y[3], y[4], 2)}})
                : b \in {DivBits(<<0, a[2], a[3]>>, y[3], y[4], 28)}})
                : a \in {DivBits(<<0, IF lt THEN 2 * x[3] + (m \div P28) ELSE x[3],
                                    IF lt THEN m % P28 ELSE x[4]>>, y[3], y[4], 28)}})

DivSpecial(x, y) ==
    IF IsNaN(x) \/ IsNaN(y) THEN NaN
    ELSE IF IsInf(x) THEN (IF IsInf(y) THEN NaN ELSE Inf(SignOf(x) * SignOf(y)))
    ELSE IF IsInf(y) THEN Zeroed(SignOf(x) * SignOf(y))
    ELSE IF IsZero(y) THEN (IF IsZero(x) THEN NaN ELSE Inf(SignOf(x) * SignOf(y)))
    ELSE Zeroed(SignOf(x) * SignOf(y))

\* the exact quotient, to 58 bits
Quotient(x, y) ==
    IF x[1] # 0 /\ y[1] # 0
    THEN Only({DivW(w[1], w[2]) : w \in {[i \in 1..2 |-> Wide(IF i = 1 THEN x ELSE y)]}})
    ELSE DivSpecial(x, y)

\* the square root digit by digit, for r = <<ru, rv, mu, mv>>, the root
\* ru * 2^30 + rv and the remainder mu * 2^30 + mv so far: the pairs of bits
\* hi down to lo of word are taken in, a bit of the root for each (nothing
\* left to take from leaves zeros to append to the root)
RECURSIVE SqrtPairs(_, _, _, _)
SqrtPairs(r, word, hi, lo) ==
    IF r[3] = 0 /\ r[4] = 0 /\ word % (4^(hi + 1)) = 0
    THEN LET p == 2^(hi - lo + 1)
             q == P30 \div p
         IN  <<r[1] * p + (r[2] \div q), (r[2] % q) * p, 0, 0>>
    ELSE IF hi > lo
    THEN SqrtPairs(SqrtPairs(r, word, hi, ((hi + lo) \div 2) + 1), word,
                   (hi + lo) \div 2, lo)
    ELSE LET v4 == (r[4] % P28) * 4 + ((word \div (4^lo)) % 4)
             u4 == 4 * r[3] + (r[4] \div P28)
             tv == (r[2] % P28) * 4 + 1
             tu == 4 * r[1] + (r[2] \div P28)
             ge == u4 > tu \/ (u4 = tu /\ v4 >= tv)
             v == IF ge THEN v4 - tv ELSE v4
             u == IF ge THEN u4 - tu - (IF v < 0 THEN 1 ELSE 0) ELSE u4
             r2 == 2 * r[2] + (IF ge THEN 1 ELSE 0)
         IN  <<2 * r[1] + (r2 \div P30), r2 % P30, u, v % P30>>

\* the square root of a wide x > 0: the integer square root of the 57 bits
\* of x (the exponent made even) followed by 58 zeros
SqrtW(x) ==
    LET odd == (x[2] + 28) % 2 # 0
        m == 2 * x[4]
        a == SqrtPairs(<<0, 0, 0, 0>>, IF odd THEN 2 * x[3] + (m \div P28) ELSE x[3], 14, 0)
        b == SqrtPairs(a, IF odd THEN m % P28 ELSE x[4], 13, 0)
        c == SqrtPairs(b, 0, 14, 0)
    IN  Only({NormLeft(<<1, ((x[2] + 28 - (IF odd THEN 1 ELSE 0)) \div 2) - 55,
                         d[1], d[2] \div 4, (d[2] % 4) * (P28 \div 4),
                         IF d[3] # 0 \/ d[4] # 0 THEN 1 ELSE 0>>) :
              d \in {SqrtPairs(c, 0, 13, 0)}})

\* the exact square root, to 58 bits
Root(x) ==
    IF x[1] > 0 THEN SqrtW(Wide(x))
    ELSE IF IsZero(x) \/ x = PosInf THEN x
    ELSE NaN

(***************************************************************************)
(* The operations of the code: on doubles (FMul, FAdd, FSub, FDiv, FSqrt)  *)
(* and on floats (MulF, AddF, DivF), each the exact result rounded once.   *)
(***************************************************************************)
FNeg(x) ==
    IF x[1] # 0 THEN <<-x[1], x[2], x[3], x[4]>>
    ELSE IF x = Zero THEN NegZero
    ELSE IF x = NegZero THEN Zero
    ELSE IF x = PosInf THEN NegInf
    ELSE IF x = NegInf THEN PosInf
    ELSE NaN

FMul(x, y) == Double(Product(x, y))
FAdd(x, y) == Double(Total(x, y))
FSub(x, y) == FAdd(x, FNeg(y))
FDiv(x, y) == Double(Quotient(x, y))
FSqrt(x) == Double(Root(x))

MulF(x, y) == Float(Product(x, y))
AddF(x, y) == Float(Total(x, y))
DivF(x, y) == Float(Quotient(x, y))

\* a double converted to float
ToFloat(x) == Float(IF x[1] = 0 THEN x ELSE Wide(x))

\* x < y, false when either is NaN; the two zeros are equal
Less(x, y) ==
    IF IsNaN(x) \/ IsNaN(y) \/ x = y \/ (IsZero(x) /\ IsZero(y)) THEN FALSE
    ELSE IF IsZero(x) THEN SignOf(y) > 0
    ELSE IF IsZero(y) THEN SignOf(x) < 0
    ELSE IF SignOf(x) # SignOf(y) THEN SignOf(x) < 0
    ELSE IF IsInf(x) THEN SignOf(x) < 0
    ELSE IF IsInf(y) THEN SignOf(y) > 0
    ELSE IF SignOf(x) > 0 THEN ~MagGe(x, y)
    ELSE MagGe(x, y)

FLt(x, y) == Less(x, y)
FGt(x, y) == Less(y, x)
FGe(x, y) == Less(y, x) \/ (~IsNaN(x) /\ ~IsNaN(y) /\ ~Less(x, y))

\* the upper 56 bits of a wide number whose other bits are zero
Upper(w) == <<w[1], w[2] + 28, w[3], w[4]>>

\* an int converted to double, which holds every int
OfInt(n) ==
    IF n = 0 THEN Zero
    ELSE IF n = IntMin THEN <<-1, -24, P27, 0>>
    ELSE Upper(NormLeft(<<IF n < 0 THEN -1 ELSE 1, -28, Abs(n) \div P28, Abs(n) % P28, 0, 0>>))

\* the double of the decimal literal n * 10^e, as the literals of the source
\* are: of up to nine digits, which n, 10^e and 10^(-e) hold exactly, so that
\* the one rounding is that of the quotient
Dec(n, e) ==
    FDiv(OfInt(IF e < 0 THEN n ELSE n * (10^e)), OfInt(IF e < 0 THEN 10^(-e) ELSE 1))

\* a float initialised from the decimal literal n * 10^e
Flt(n, e) == ToFloat(Dec(n, e))

\* the doubles 1, 0.5 and 2
One == <<1, -55, P27, 0>>
Half == <<1, -56, P27, 0>>
Two == <<1, -54, P27, 0>>

\* static_cast<int> of a finite double of magnitude below 2^31: the
\* fraction is dropped
Truncated(x) ==
    IF x[1] = 0 \/ x[2] <= -56 THEN 0
    ELSE IF x[2] <= -28 THEN x[1] * (x[3] \div (2^(-28 - x[2])))
    ELSE x[1] * (x[3] * (2^(28 + x[2])) + (x[4] \div (2^(-x[2]))))

(***************************************************************************)
(* The engine.  An engine value e is the record of the object's fields     *)
(* plus out, the duty cycle last written to each pin, and nanInt, what the *)
(* build gives for the conversion of a NaN to int (undefined in C++; one   *)
(* conversion routine per build, so one value per engine).  Every method   *)
(* is an operator from an engine and its arguments to the engine it leaves.*)
(***************************************************************************)
Pins == {"red", "green", "blue", "warm", "cold"}

\* (uint16_t) -1
UnsetT == (-1) % 65536
UnsetLuv == [L |-> OfInt(-1), u |-> OfInt(-1), v |-> OfInt(-1)]

Channels == {"R", "G", "B"}

\* the RGB struct of the three values f gives for the channels
Struct(f) == [R |-> f["R"], G |-> f["G"], B |-> f["B"]]

\* the results a build can give for static_cast<int> of a NaN
UBInts == {IntMin, 0, IntMax}

\* static_cast<float>(p) / n of lines 74-76: the int p converted to float,
\* the uint16_t n to int and to float, and the float quotient
IntRatio(p, n) == DivF(ToFloat(OfInt(p)), ToFloat(OfInt(n)))

\* a conversion that truncates: static_cast<int>(x * pwmRange)
ToPwmTruncating(x, pwmRange, ofNaN) ==
    IF IsNaN(x) THEN ofNaN
    ELSE Truncated(MulF(x, ToFloat(OfInt(pwmRange))))

\* static_cast<int>(x * pwmRange + 0.5) of lines 62-64 for a float x already
\* limited to 0..1: the product is a float product, the sum with the double
\* 0.5 is a double sum
ToPwm(x, pwmRange, ofNaN) ==
    IF IsNaN(x) THEN ofNaN
    ELSE Truncated(FAdd(MulF(x, ToFloat(OfInt(pwmRange))), Half))

\* lines 54-59, one component
Limit01(x) ==
    IF FLt(x, Zero) THEN Zero
    ELSE IF FGt(x, One) THEN One
    ELSE x

\* a setRaw that leaves out line 83 and keeps the temperature
setRawPwmKeepingT(e, pwm) ==
    [e EXCEPT !.out = IF e.onOff_
                      THEN [p \in Pins |-> IF p = "red" THEN pwm.R
                                           ELSE IF p = "green" THEN pwm.G
                                           ELSE IF p = "blue" THEN pwm.B
                                           ELSE e.out[p]]
                      ELSE e.out,
               !.raw_ = Struct([c \in Channels |-> IntRatio(pwm[c], e.pwmRange_)]),
               !.luv_ = UnsetLuv]

\* lines 66-83, pwm being the three integers of lines 62-64
setRawPwm(e, pwm) ==
    [e EXCEPT
        !.out = IF e.onOff_
                THEN [p \in Pins |->
                        IF p = "red" THEN pwm.R
                        ELSE IF p = "green" THEN pwm.G
                        ELSE IF p = "blue" THEN pwm.B
                        ELSE e.out[p]]
                ELSE e.out,
        !.raw_ = Struct([c \in Channels |-> IntRatio(pwm[c], e.pwmRange_)]),
        !.luv_ = UnsetLuv,
        !.T_ = UnsetT]

\* lines 62-64
Pwm(e, lim) == Struct([c \in Channels |-> ToPwm(lim[c], e.pwmRange_, e.nanInt)])

\* lines 54-59
Limited(raw) == Struct([c \in Channels |-> Limit01(raw[c])])

\* lines 47-84
setRaw(e, raw) ==
    Only({setRawPwm(e, pwm) : pwm \in {Pwm(e, lim) : lim \in {Limited(raw)}}})

getRaw(e) == e.raw_

\* a setOnOff that turns on without line 34, the projection of the saved values
setOnOffWithoutProjection(e, onOff) ==
    IF onOff
    THEN [e EXCEPT !.onOff_ = TRUE]
    ELSE [e EXCEPT !.onOff_ = FALSE,
                   !.out = [p \in Pins |-> IF p \in {"red", "green", "blue"}
                                           THEN 0 ELSE e.out[p]]]

setOnOff(e, onOff) ==
    IF onOff
    THEN setRaw([e EXCEPT !.onOff_ = TRUE], getRaw(e))
    ELSE [e EXCEPT !.onOff_ = FALSE,
                   !.out = [p \in Pins |->
                              IF p \in {"red", "green", "blue"} THEN 0
                              ELSE e.out[p]]]

(***************************************************************************)
(* findCoefficient_, lines 219-253, computed in double.  Lines 238 and 241 *)
(* are each one expression: a quotient whose numerator holds the square    *)
(* root of a polynomial written out term by term.  C++ evaluates such an   *)
(* expression as it is parsed: a term is the product of its factors taken  *)
(* from left to right, a sum is the terms added or subtracted from left to *)
(* right, and every product, sum and difference is rounded to double.      *)
(* Where the terms cancel (a target on a primary, primaries on one line)   *)
(* what is left is the rounding error of these steps, so the order is part *)
(* of the result.  The tables below hold the terms in the order of the     *)
(* source: a term is its sign followed by its factors, each spelled as in  *)
(* the source ("(P0u*P0u)" is a product in parentheses, a factor of its    *)
(* own; "sqrt" is the square root of the polynomial under it).             *)
(***************************************************************************)
\* line 238: the 319 terms under the square root
Radicand238 ==
    << <<"+", "(P0u*P0u)", "(P1v*P1v)">>, <<"+", "(P1u*P1u)", "(P0v*P0v)">>,
       <<"+", "(P0u*P0u)", "(PTv*PTv)">>, <<"+", "(P0v*P0v)", "(PTu*PTu)">>,
       <<"+", "(P1u*P1u)", "(PTv*PTv)">>, <<"+", "(P1v*P1v)", "(PTu*PTu)">>,
       <<"-", "Lp1", "(P0u*P0u)", "(P1v*P1v)", "2.0">>,
       <<"-", "Lp1", "(P1u*P1u)", "(P0v*P0v)", "2.0">>,
       <<"-", "Lp2", "(P0u*P0u)", "(P1v*P1v)", "2.0">>,
       <<"-", "Lp2", "(P1u*P1u)", "(P0v*P0v)", "2.0">>,
       <<"+", "Lq1", "(P0u*P0u)", "(P1v*P1v)", "2.0">>,
       <<"+", "Lq1", "(P1u*P1u)", "(P0v*P0v)", "2.0">>,
       <<"-", "Lp1", "(P0u*P0u)", "(PTv*PTv)", "2.0">>,
       <<"-", "Lp1", "(P0v*P0v)", "(PTu*PTu)", "2.0">>,
       <<"-", "Lp2", "(P0u*P0u)", "(PTv*PTv)", "4.0">>,
       <<"-", "Lp2", "(P0v*P0v)", "(PTu*PTu)", "4.0">>,
       <<"+", "Lq1", "(P0u*P0u)", "(PTv*PTv)", "2.0">>,
       <<"+", "Lq1", "(P0v*P0v)", "(PTu*PTu)", "2.0">>,
       <<"+", "Lq1", "(P1u*P1u)", "(PTv*PTv)", "2.0">>,
       <<"+", "Lq1", "(P1v*P1v)", "(PTu*PTu)", "2.0">>,
       <<"+", "(Lp1*Lp1)", "(P0u*P0u)", "(P1v*P1v)">>,
       <<"+", "(Lp1*Lp1)", "(P1u*P1u)", "(P0v*P0v)">>,
       <<"+", "(Lp2*Lp2)", "(P0u*P0u)", "(P1v*P1v)">>,
       <<"+", "(Lp2*Lp2)", "(P1u*P1u)", "(P0v*P0v)">>,
       <<"+", "(Lp1*Lp1)", "(P1u*P1u)", "(P2v*P2v)">>,
       <<"+", "(Lp1*Lp1)", "(P2u*P2u)", "(P1v*P1v)">>,
       <<"+", "(Lp2*Lp2)", "(P0u*P0u)", "(P2v*P2v)">>,
       <<"+", "(Lp2*Lp2)", "(P2u*P2u)", "(P0v*P0v)">>,
       <<"+", "(Lp2*Lp2)", "(P1u*P1u)", "(P2v*P2v)">>,
       <<"+", "(Lp2*Lp2)", "(P2u*P2u)", "(P1v*P1v)">>,
       <<"+", "(Lq1*Lq1)", "(P0u*P0u)", "(P1v*P1v)">>,
       <<"+", "(Lq1*Lq1)", "(P1u*P1u)", "(P0v*P0v)">>,
       <<"+", "(Lp1*Lp1)", "(P0u*P0u)", "(PTv*PTv)">>,
       <<"+", "(Lp1*Lp1)", "(P0v*P0v)", "(PTu*PTu)">>,
       <<"+", "(Lp1*Lp1)", "(P2u*P2u)", "(PTv*PTv)">>,
       <<"+", "(Lp1*Lp1)", "(P2v*P2v)", "(PTu*PTu)">>,
       <<"+", "(Lq1*Lq1)", "(P0u*P0u)", "(PTv*PTv)">>,
       <<"+", "(Lq1*Lq1)", "(P0v*P0v)", "(PTu*PTu)">>,
       <<"+", "(Lq1*Lq1)", "(P1u*P1u)", "(PTv*PTv)">>,
       <<"+", "(Lq1*Lq1)", "(P1v*P1v)", "(PTu*PTu)">>, <<"-", "P0u", "P1u", "(PTv*PTv)", "2.0">>,
       <<"-", "P0u", "(P1v*P1v)", "PTu", "2.0">>, <<"-", "P1u", "(P0v*P0v)", "PTu", "2.0">>,
       <<"-", "P0v", "P1v", "(PTu*PTu)", "2.0">>, <<"-", "(P0u*P0u)", "P1v", "PTv", "2.0">>,
       <<"-", "(P1u*P1u)", "P0v", "PTv", "2.0">>,
       <<"+", "Lp1", "Lp2", "(P0u*P0u)", "(P1v*P1v)", "2.0">>,
       <<"+", "Lp1", "Lp2", "(P1u*P1u)", "(P0v*P0v)", "2.0">>,
       <<"+", "Lp1", "Lp2", "(P1u*P1u)", "(P2v*P2v)", "2.0">>,
       <<"+", "Lp1", "Lp2", "(P2u*P2u)", "(P1v*P1v)", "2.0">>,
       <<"-", "Lp1", "Lq1", "(P0u*P0u)", "(P1v*P1v)", "2.0">>,
       <<"-", "Lp1", "Lq1", "(P1u*P1u)", "(P0v*P0v)", "2.0">>,
       <<"-", "Lp2", "Lq1", "(P0u*P0u)", "(P1v*P1v)", "2.0">>,
       <<"-", "Lp2", "Lq1", "(P1u*P1u)", "(P0v*P0v)", "2.0">>,
       <<"+", "Lp1", "Lq1", "(P0u*P0u)", "(PTv*PTv)", "2.0">>,
       <<"+", "Lp1", "Lq1", "(P0v*P0v)", "(PTu*PTu)", "2.0">>,
       <<"-", "(Lp1*Lp1)", "P0u", "P2u", "(P1v*P1v)", "2.0">>,
       <<"-", "(Lp2*Lp2)", "P0u", "P1u", "(P2v*P2v)", "2.0">>,
       <<"-", "(Lp2*Lp2)", "P0u", "P2u", "(P1v*P1v)", "2.0">>,
       <<"-", "(Lp2*Lp2)", "P1u", "P2u", "(P0v*P0v)", "2.0">>,
       <<"-", "(Lp1*Lp1)", "(P1u*P1u)", "P0v", "P2v", "2.0">>,
       <<"-", "(Lp2*Lp2)", "(P0u*P0u)", "P1v", "P2v", "2.0">>,
       <<"-", "(Lp2*Lp2)", "(P1u*P1u)", "P0v", "P2v", "2.0">>,
       <<"-", "(Lp2*Lp2)", "(P2u*P2u)", "P0v", "P1v", "2.0">>,
       <<"-", "(Lp1*Lp1)", "P1u", "(P0v*P0v)", "PTu", "2.0">>,
       <<"-", "(Lp1*Lp1)", "P0u", "P2u", "(PTv*PTv)", "2.0">>,
       <<"-", "(Lp1*Lp1)", "P1u", "(P2v*P2v)", "PTu", "2.0">>,
       <<"-", "(Lp1*Lp1)", "(P0u*P0u)", "P1v", "PTv", "2.0">>,
       <<"-", "(Lp1*Lp1)", "P0v", "P2v", "(PTu*PTu)", "2.0">>,
       <<"-", "(Lp1*Lp1)", "(P2u*P2u)", "P1v", "PTv", "2.0">>,
       <<"-", "(Lq1*Lq1)", "P0u", "P1u", "(PTv*PTv)", "2.0">>,
       <<"-", "(Lq1*Lq1)", "P0u", "(P1v*P1v)", "PTu", "2.0">>,
       <<"-", "(Lq1*Lq1)", "P1u", "(P0v*P0v)", "PTu", "2.0">>,
       <<"-", "(Lq1*Lq1)", "P0v", "P1v", "(PTu*PTu)", "2.0">>,
       <<"-", "(Lq1*Lq1)", "(P0u*P0u)", "P1v", "PTv", "2.0">>,
       <<"-", "(Lq1*Lq1)", "(P1u*P1u)", "P0v", "PTv", "2.0">>,
       <<"-", "P0u", "P1u", "P0v", "P1v", "2.0">>, <<"+", "P0u", "P1u", "P0v", "PTv", "2.0">>,
       <<"+", "P0u", "P0v", "P1v", "PTu", "2.0">>, <<"+", "P0u", "P1u", "P1v", "PTv", "2.0">>,
       <<"+", "P1u", "P0v", "P1v", "PTu", "2.0">>, <<"-", "P0u", "P0v", "PTu", "PTv", "2.0">>,
       <<"+", "P0u", "P1v", "PTu", "PTv", "2.0">>, <<"+", "P1u", "P0v", "PTu", "PTv", "2.0">>,
       <<"-", "P1u", "P1v", "PTu", "PTv", "2.0">>, <<"+", "Lp1", "P0u", "P2u", "(P1v*P1v)", "2.0">>,
       <<"+", "Lp2", "P0u", "P2u", "(P1v*P1v)", "2.0">>,
       <<"-", "Lp2", "P1u", "P2u", "(P0v*P0v)", "2.0">>,
       <<"+", "Lp1", "(P1u*P1u)", "P0v", "P2v", "2.0">>,
       <<"-", "Lp2", "(P0u*P0u)", "P1v", "P2v", "2.0">>,
       <<"+", "Lp2", "(P1u*P1u)", "P0v", "P2v", "2.0">>,
       <<"+", "Lp1", "P0u", "P1u", "(PTv*PTv)", "2.0">>,
       <<"+", "Lp1", "P0u", "(P1v*P1v)", "PTu", "2.0">>,
       <<"+", "Lp1", "P1u", "(P0v*P0v)", "PTu", "4.0">>,
       <<"+", "Lp1", "P0u", "P2u", "(PTv*PTv)", "2.0">>,
       <<"+", "Lp2", "P0u", "P1u", "(PTv*PTv)", "4.0">>,
       <<"+", "Lp2", "P0u", "(P1v*P1v)", "PTu", "2.0">>,
       <<"+", "Lp2", "P1u", "(P0v*P0v)", "PTu", "6.0">>,
       <<"-", "Lp1", "P1u", "P2u", "(PTv*PTv)", "2.0">>,
       <<"-", "Lp1", "P2u", "(P1v*P1v)", "PTu", "2.0">>,
       <<"+", "Lp2", "P0u", "P2u", "(PTv*PTv)", "4.0">>,
       <<"+", "Lp2", "P2u", "(P0v*P0v)", "PTu", "2.0">>,
       <<"-", "Lp2", "P1u", "P2u", "(PTv*PTv)", "4.0">>,
       <<"-", "Lp2", "P2u", "(P1v*P1v)", "PTu", "2.0">>,
       <<"+", "Lp1", "P0v", "P1v", "(PTu*PTu)", "2.0">>,
       <<"+", "Lp1", "(P0u*P0u)", "P1v", "PTv", "4.0">>,
       <<"+", "Lp1", "(P1u*P1u)", "P0v", "PTv", "2.0">>,
       <<"+", "Lp1", "P0v", "P2v", "(PTu*PTu)", "2.0">>,
       <<"+", "Lp2", "P0v", "P1v", "(PTu*PTu)", "4.0">>,
       <<"+", "Lp2", "(P0u*P0u)", "P1v", "PTv", "6.0">>,
       <<"+", "Lp2", "(P1u*P1u)", "P0v", "PTv", "2.0">>,
       <<"-", "Lp1", "P1v", "P2v", "(PTu*PTu)", "2.0">>,
       <<"-", "Lp1", "(P1u*P1u)", "P2v", "PTv", "2.0">>,
       <<"+", "Lp2", "P0v", "P2v", "(PTu*PTu)", "4.0">>,
       <<"+", "Lp2", "(P0u*P0u)", "P2v", "PTv", "2.0">>,
       <<"-", "Lp2", "P1v", "P2v", "(PTu*PTu)", "4.0">>,
       <<"-", "Lp2", "(P1u*P1u)", "P2v", "PTv", "2.0">>,
       <<"-", "Lq1", "P0u", "P1u", "(PTv*PTv)", "4.0">>,
       <<"-", "Lq1", "P0u", "(P1v*P1v)", "PTu", "4.0">>,
       <<"-", "Lq1", "P1u", "(P0v*P0v)", "PTu", "4.0">>,
       <<"-", "Lq1", "P0v", "P1v", "(PTu*PTu)", "4.0">>,
       <<"-", "Lq1", "(P0u*P0u)", "P1v", "PTv", "4.0">>,
       <<"-", "Lq1", "(P1u*P1u)", "P0v", "PTv", "4.0">>,
       <<"-", "Lp1", "Lp2", "P0u", "P1u", "(P2v*P2v)", "2.0">>,
       <<"-", "Lp1", "Lp2", "P0u", "P2u", "(P1v*P1v)", "4.0">>,
       <<"-", "Lp1", "Lp2", "P1u", "P2u", "(P0v*P0v)", "2.0">>,
       <<"-", "Lp1", "Lp2", "(P0u*P0u)", "P1v", "P2v", "2.0">>,
       <<"-", "Lp1", "Lp2", "(P1u*P1u)", "P0v", "P2v", "4.0">>,
       <<"-", "Lp1", "Lp2", "(P2u*P2u)", "P0v", "P1v", "2.0">>,
       <<"+", "Lp1", "Lq1", "P0u", "P2u", "(P1v*P1v)", "2.0">>,
       <<"+", "Lp1", "Lq1", "P1u", "P2u", "(P0v*P0v)", "4.0">>,
       <<"+", "Lp2", "Lq1", "P0u", "P2u", "(P1v*P1v)", "2.0">>,
       <<"+", "Lp2", "Lq1", "P1u", "P2u", "(P0v*P0v)", "2.0">>,
       <<"+", "Lp1", "Lq1", "(P0u*P0u)", "P1v", "P2v", "4.0">>,
       <<"+", "Lp1", "Lq1", "(P1u*P1u)", "P0v", "P2v", "2.0">>,
       <<"+", "Lp2", "Lq1", "(P0u*P0u)", "P1v", "P2v", "2.0">>,
       <<"+", "Lp2", "Lq1", "(P1u*P1u)", "P0v", "P2v", "2.0">>,
       <<"-", "Lp1", "Lp2", "P1u", "(P0v*P0v)", "PTu", "2.0">>,
       <<"+", "Lp1", "Lp2", "P0u", "(P2v*P2v)", "PTu", "2.0">>,
       <<"+", "Lp1", "Lp2", "P2u", "(P0v*P0v)", "PTu", "2.0">>,
       <<"-", "Lp1", "Lp2", "P1u", "(P2v*P2v)", "PTu", "2.0">>,
       <<"-", "Lp1", "Lp2", "(P0u*P0u)", "P1v", "PTv", "2.0">>,
       <<"+", "Lp1", "Lp2", "(P0u*P0u)", "P2v", "PTv", "2.0">>,
       <<"+", "Lp1", "Lp2", "(P2u*P2u)", "P0v", "PTv", "2.0">>,
       <<"-", "Lp1", "Lp2", "(P2u*P2u)", "P1v", "PTv", "2.0">>,
       <<"-", "Lp1", "Lq1", "P0u", "P1u", "(PTv*PTv)", "2.0">>,
       <<"+", "Lp1", "Lq1", "P0u", "(P1v*P1v)", "PTu", "2.0">>,
       <<"-", "Lp1", "Lq1", "P0u", "P2u", "(PTv*PTv)", "2.0">>,
       <<"-", "Lp1", "Lq1", "P2u", "(P0v*P0v)", "PTu", "4.0">>,
       <<"+", "Lp2", "Lq1", "P0u", "(P1v*P1v)", "PTu", "2.0">>,
       <<"+", "Lp2", "Lq1", "P1u", "(P0v*P0v)", "PTu", "2.0">>,
       <<"+", "Lp1", "Lq1", "P1u", "P2u", "(PTv*PTv)", "2.0">>,
       <<"-", "Lp1", "Lq1", "P2u", "(P1v*P1v)", "PTu", "2.0">>,
       <<"-", "Lp2", "Lq1", "P2u", "(P0v*P0v)", "PTu", "2.0">>,
       <<"-", "Lp2", "Lq1", "P2u", "(P1v*P1v)", "PTu", "2.0">>,
       <<"-", "Lp1", "Lq1", "P0v", "P1v", "(PTu*PTu)", "2.0">>,
       <<"+", "Lp1", "Lq1", "(P1u*P1u)", "P0v", "PTv", "2.0">>,
       <<"-", "Lp1", "Lq1", "P0v", "P2v", "(PTu*PTu)", "2.0">>,
       <<"-", "Lp1", "Lq1", "(P0u*P0u)", "P2v", "PTv", "4.0">>,
       <<"+", "Lp2", "Lq1", "(P0u*P0u)", "P1v", "PTv", "2.0">>,
       <<"+", "Lp2", "Lq1", "(P1u*P1u)", "P0v", "PTv", "2.0">>,
       <<"+", "Lp1", "Lq1", "P1v", "P2v", "(PTu*PTu)", "2.0">>,
       <<"-", "Lp1", "Lq1", "(P1u*P1u)", "P2v", "PTv", "2.0">>,
       <<"-", "Lp2", "Lq1", "(P0u*P0u)", "P2v", "PTv", "2.0">>,
       <<"-", "Lp2", "Lq1", "(P1u*P1u)", "P2v", "PTv", "2.0">>,
       <<"-", "(Lp1*Lp1)", "P0u", "P1u", "P0v", "P1v", "2.0">>,
       <<"-", "(Lp2*Lp2)", "P0u", "P1u", "P0v", "P1v", "2.0">>,
       <<"+", "(Lp1*Lp1)", "P0u", "P1u", "P1v", "P2v", "2.0">>,
       <<"+", "(Lp1*Lp1)", "P1u", "P2u", "P0v", "P1v", "2.0">>,
       <<"+", "(Lp2*Lp2)", "P0u", "P1u", "P0v", "P2v", "2.0">>,
       <<"+", "(Lp2*Lp2)", "P0u", "P2u", "P0v", "P1v", "2.0">>,
       <<"+", "(Lp2*Lp2)", "P0u", "P1u", "P1v", "P2v", "2.0">>,
       <<"-", "(Lp2*Lp2)", "P0u", "P2u", "P0v", "P2v", "2.0">>,
       <<"+", "(Lp2*Lp2)", "P1u", "P2u", "P0v", "P1v", "2.0">>,
       <<"-", "(Lp1*Lp1)", "P1u", "P2u", "P1v", "P2v", "2.0">>,
       <<"+", "(Lp2*Lp2)", "P0u", "P2u", "P1v", "P2v", "2.0">>,
       <<"+", "(Lp2*Lp2)", "P1u", "P2u", "P0v", "P2v", "2.0">>,
       <<"-", "(Lp2*Lp2)", "P1u", "P2u", "P1v", "P2v", "2.0">>,
       <<"-", "(Lq1*Lq1)", "P0u", "P1u", "P0v", "P1v", "2.0">>,
       <<"+", "(Lp1*Lp1)", "P0u", "P1u", "P0v", "PTv", "2.0">>,
       <<"+", "(Lp1*Lp1)", "P0u", "P0v", "P1v", "PTu", "2.0">>,
       <<"-", "(Lp1*Lp1)", "P0u", "P1u", "P2v", "PTv", "2.0">>,
       <<"+", "(Lp1*Lp1)", "P0u", "P2u", "P1v", "PTv", "4.0">>,
       <<"-", "(Lp1*Lp1)", "P0u", "P1v", "P2v", "PTu", "2.0">>,
       <<"-", "(Lp1*Lp1)", "P1u", "P2u", "P0v", "PTv", "2.0">>,
       <<"+", "(Lp1*Lp1)", "P1u", "P0v", "P2v", "PTu", "4.0">>,
       <<"-", "(Lp1*Lp1)", "P2u", "P0v", "P1v", "PTu", "2.0">>,
       <<"+", "(Lp1*Lp1)", "P1u", "P2u", "P2v", "PTv", "2.0">>,
       <<"+", "(Lp1*Lp1)", "P2u", "P1v", "P2v", "PTu", "2.0">>,
       <<"+", "(Lq1*Lq1)", "P0u", "P1u", "P0v", "PTv", "2.0">>,
       <<"+", "(Lq1*Lq1)", "P0u", "P0v", "P1v", "PTu", "2.0">>,
       <<"+", "(Lq1*Lq1)", "P0u", "P1u", "P1v", "PTv", "2.0">>,
       <<"+", "(Lq1*Lq1)", "P1u", "P0v", "P1v", "PTu", "2.0">>,
       <<"-", "(Lp1*Lp1)", "P0u", "P0v", "PTu", "PTv", "2.0">>,
       <<"+", "(Lp1*Lp1)", "P0u", "P2v", "PTu", "PTv", "2.0">>,
       <<"+", "(Lp1*Lp1)", "P2u", "P0v", "PTu", "PTv", "2.0">>,
       <<"-", "(Lp1*Lp1)", "P2u", "P2v", "PTu", "PTv", "2.0">>,
       <<"-", "(Lq1*Lq1)", "P0u", "P0v", "PTu", "PTv", "2.0">>,
       <<"+", "(Lq1*Lq1)", "P0u", "P1v", "PTu", "PTv", "2.0">>,
       <<"+", "(Lq1*Lq1)", "P1u", "P0v", "PTu", "PTv", "2.0">>,
       <<"-", "(Lq1*Lq1)", "P1u", "P1v", "PTu", "PTv", "2.0">>,
       <<"+", "Lp1", "P0u", "P1u", "P0v", "P1v", "4.0">>,
       <<"+", "Lp2", "P0u", "P1u", "P0v", "P1v", "4.0">>,
       <<"-", "Lp1", "P0u", "P1u", "P1v", "P2v", "2.0">>,
       <<"-", "Lp1", "P1u", "P2u", "P0v", "P1v", "2.0">>,
       <<"+", "Lp2", "P0u", "P1u", "P0v", "P2v", "2.0">>,
       <<"+", "Lp2", "P0u", "P2u", "P0v", "P1v", "2.0">>,
       <<"-", "Lp2", "P0u", "P1u", "P1v", "P2v", "2.0">>,
       <<"-", "Lp2", "P1u", "P2u", "P0v", "P1v", "2.0">>,
       <<"-", "Lq1", "P0u", "P1u", "P0v", "P1v", "4.0">>,
       <<"-", "Lp1", "P0u", "P1u", "P0v", "PTv", "4.0">>,
       <<"-", "Lp1", "P0u", "P0v", "P1v", "PTu", "4.0">>,
       <<"-", "Lp1", "P0u", "P1u", "P1v", "PTv", "2.0">>,
       <<"-", "Lp1", "P1u", "P0v", "P1v", "PTu", "2.0">>,
       <<"-", "Lp2", "P0u", "P1u", "P0v", "PTv", "6.0">>,
       <<"-", "Lp2", "P0u", "P0v", "P1v", "PTu", "6.0">>,
       <<"+", "Lp1", "P0u", "P1u", "P2v", "PTv", "2.0">>,
       <<"-", "Lp1", "P0u", "P2u", "P1v", "PTv", "4.0">>,
       <<"+", "Lp1", "P0u", "P1v", "P2v", "PTu", "2.0">>,
       <<"+", "Lp1", "P1u", "P2u", "P0v", "PTv", "2.0">>,
       <<"-", "Lp1", "P1u", "P0v", "P2v", "PTu", "4.0">>,
       <<"+", "Lp1", "P2u", "P0v", "P1v", "PTu", "2.0">>,
       <<"-", "Lp2", "P0u", "P1u", "P1v", "PTv", "2.0">>,
       <<"-", "Lp2", "P0u", "P2u", "P0v", "PTv", "2.0">>,
       <<"-", "Lp2", "P0u", "P0v", "P2v", "PTu", "2.0">>,
       <<"-", "Lp2", "P1u", "P0v", "P1v", "PTu", "2.0">>,
       <<"+", "Lp1", "P1u", "P2u", "P1v", "PTv", "2.0">>,
       <<"+", "Lp1", "P1u", "P1v", "P2v", "PTu", "2.0">>,
       <<"-", "Lp2", "P0u", "P2u", "P1v", "PTv", "6.0">>,
       <<"+", "Lp2", "P0u", "P1v", "P2v", "PTu", "6.0">>,
       <<"+", "Lp2", "P1u", "P2u", "P0v", "PTv", "6.0">>,
       <<"-", "Lp2", "P1u", "P0v", "P2v", "PTu", "6.0">>,
       <<"+", "Lp2", "P1u", "P2u", "P1v", "PTv", "2.0">>,
       <<"+", "Lp2", "P1u", "P1v", "P2v", "PTu", "2.0">>,
       <<"+", "Lq1", "P0u", "P1u", "P0v", "PTv", "4.0">>,
       <<"+", "Lq1", "P0u", "P0v", "P1v", "PTu", "4.0">>,
       <<"+", "Lq1", "P0u", "P1u", "P1v", "PTv", "4.0">>,
       <<"+", "Lq1", "P1u", "P0v", "P1v", "PTu", "4.0">>,
       <<"+", "Lp1", "P0u", "P0v", "PTu", "PTv", "4.0">>,
       <<"-", "Lp1", "P0u", "P1v", "PTu", "PTv", "2.0">>,
       <<"-", "Lp1", "P1u", "P0v", "PTu", "PTv", "2.0">>,
       <<"+", "Lp2", "P0u", "P0v", "PTu", "PTv", "8.0">>,
       <<"-", "Lp1", "P0u", "P2v", "PTu", "PTv", "2.0">>,
       <<"-", "Lp1", "P2u", "P0v", "PTu", "PTv", "2.0">>,
       <<"-", "Lp2", "P0u", "P1v", "PTu", "PTv", "4.0">>,
       <<"-", "Lp2", "P1u", "P0v", "PTu", "PTv", "4.0">>,
       <<"+", "Lp1", "P1u", "P2v", "PTu", "PTv", "2.0">>,
       <<"+", "Lp1", "P2u", "P1v", "PTu", "PTv", "2.0">>,
       <<"-", "Lp2", "P0u", "P2v", "PTu", "PTv", "4.0">>,
       <<"-", "Lp2", "P2u", "P0v", "PTu", "PTv", "4.0">>,
       <<"+", "Lp2", "P1u", "P2v", "PTu", "PTv", "4.0">>,
       <<"+", "Lp2", "P2u", "P1v", "PTu", "PTv", "4.0">>,
       <<"-", "Lq1", "P0u", "P0v", "PTu", "PTv", "4.0">>,
       <<"+", "Lq1", "P0u", "P1v", "PTu", "PTv", "4.0">>,
       <<"+", "Lq1", "P1u", "P0v", "PTu", "PTv", "4.0">>,
       <<"-", "Lq1", "P1u", "P1v", "PTu", "PTv", "4.0">>,
       <<"-", "Lp1", "Lp2", "P0u", "P1u", "P0v", "P1v", "4.0">>,
       <<"+", "Lp1", "Lp2", "P0u", "P1u", "P0v", "P2v", "2.0">>,
       <<"+", "Lp1", "Lp2", "P0u", "P2u", "P0v", "P1v", "2.0">>,
       <<"+", "Lp1", "Lp2", "P0u", "P1u", "P1v", "P2v", "4.0">>,
       <<"+", "Lp1", "Lp2", "P1u", "P2u", "P0v", "P1v", "4.0">>,
       <<"+", "Lp1", "Lp2", "P0u", "P2u", "P1v", "P2v", "2.0">>,
       <<"+", "Lp1", "Lp2", "P1u", "P2u", "P0v", "P2v", "2.0">>,
       <<"-", "Lp1", "Lp2", "P1u", "P2u", "P1v", "P2v", "4.0">>,
       <<"+", "Lp1", "Lq1", "P0u", "P1u", "P0v", "P1v", "4.0">>,
       <<"-", "Lp1", "Lq1", "P0u", "P1u", "P0v", "P2v", "4.0">>,
       <<"-", "Lp1", "Lq1", "P0u", "P2u", "P0v", "P1v", "4.0">>,
       <<"+", "Lp2", "Lq1", "P0u", "P1u", "P0v", "P1v", "4.0">>,
       <<"-", "Lp1", "Lq1", "P0u", "P1u", "P1v", "P2v", "2.0">>,
       <<"-", "Lp1", "Lq1", "P1u", "P2u", "P0v", "P1v", "2.0">>,
       <<"-", "Lp2", "Lq1", "P0u", "P1u", "P0v", "P2v", "2.0">>,
       <<"-", "Lp2", "Lq1", "P0u", "P2u", "P0v", "P1v", "2.0">>,
       <<"-", "Lp2", "Lq1", "P0u", "P1u", "P1v", "P2v", "2.0">>,
       <<"-", "Lp2", "Lq1", "P1u", "P2u", "P0v", "P1v", "2.0">>,
       <<"+", "Lp1", "Lp2", "P0u", "P1u", "P0v", "PTv", "2.0">>,
       <<"+", "Lp1", "Lp2", "P0u", "P0v", "P1v", "PTu", "2.0">>,
       <<"-", "Lp1", "Lp2", "P0u", "P2u", "P0v", "PTv", "2.0">>,
       <<"-", "Lp1", "Lp2", "P0u", "P0v", "P2v", "PTu", "2.0">>,
       <<"-", "Lp1", "Lp2", "P0u", "P1u", "P2v", "PTv", "2.0">>,
       <<"+", "Lp1", "Lp2", "P0u", "P2u", "P1v", "PTv", "4.0">>,
       <<"-", "Lp1", "Lp2", "P0u", "P1v", "P2v", "PTu", "2.0">>,
       <<"-", "Lp1", "Lp2", "P1u", "P2u", "P0v", "PTv", "2.0">>,
       <<"+", "Lp1", "Lp2", "P1u", "P0v", "P2v", "PTu", "4.0">>,
       <<"-", "Lp1", "Lp2", "P2u", "P0v", "P1v", "PTu", "2.0">>,
       <<"-", "Lp1", "Lp2", "P0u", "P2u", "P2v", "PTv", "2.0">>,
       <<"-", "Lp1", "Lp2", "P2u", "P0v", "P2v", "PTu", "2.0">>,
       <<"+", "Lp1", "Lp2", "P1u", "P2u", "P2v", "PTv", "2.0">>,
       <<"+", "Lp1", "Lp2", "P2u", "P1v", "P2v", "PTu", "2.0">>,
       <<"-", "Lp1", "Lq1", "P0u", "P1u", "P1v", "PTv", "2.0">>,
       <<"+", "Lp1", "Lq1", "P0u", "P2u", "P0v", "PTv", "4.0">>,
       <<"+", "Lp1", "Lq1", "P0u", "P0v", "P2v", "PTu", "4.0">>,
       <<"-", "Lp1", "Lq1", "P1u", "P0v", "P1v", "PTu", "2.0">>,
       <<"-", "Lp2", "Lq1", "P0u", "P1u", "P0v", "PTv", "2.0">>,
       <<"-", "Lp2", "Lq1", "P0u", "P0v", "P1v", "PTu", "2.0">>,
       <<"+", "Lp1", "Lq1", "P0u", "P1u", "P2v", "PTv", "6.0">>,
       <<"-", "Lp1", "Lq1", "P0u", "P1v", "P2v", "PTu", "6.0">>,
       <<"-", "Lp1", "Lq1", "P1u", "P2u", "P0v", "PTv", "6.0">>,
       <<"+", "Lp1", "Lq1", "P2u", "P0v", "P1v", "PTu", "6.0">>,
       <<"-", "Lp2", "Lq1", "P0u", "P1u", "P1v", "PTv", "2.0">>,
       <<"+", "Lp2", "Lq1", "P0u", "P2u", "P0v", "PTv", "2.0">>,
       <<"+", "Lp2", "Lq1", "P0u", "P0v", "P2v", "PTu", "2.0">>,
       <<"-", "Lp2", "Lq1", "P1u", "P0v", "P1v", "PTu", "2.0">>,
       <<"+", "Lp1", "Lq1", "P1u", "P2u", "P1v", "PTv", "2.0">>,
       <<"+", "Lp1", "Lq1", "P1u", "P1v", "P2v", "PTu", "2.0">>,
       <<"+", "Lp2", "Lq1", "P0u", "P1u", "P2v", "PTv", "4.0">>,
       <<"-", "Lp2", "Lq1", "P0u", "P2u", "P1v", "PTv", "2.0">>,
       <<"-", "Lp2", "Lq1", "P0u", "P1v", "P2v", "PTu", "2.0">>,
       <<"-", "Lp2", "Lq1", "P1u", "P2u", "P0v", "PTv", "2.0">>,
       <<"-", "Lp2", "Lq1", "P1u", "P0v", "P2v", "PTu", "2.0">>,
       <<"+", "Lp2", "Lq1", "P2u", "P0v", "P1v", "PTu", "4.0">>,
       <<"+", "Lp2", "Lq1", "P1u", "P2u", "P1v", "PTv", "2.0">>,
       <<"+", "Lp2", "Lq1", "P1u", "P1v", "P2v", "PTu", "2.0">>,
       <<"-", "Lp1", "Lq1", "P0u", "P0v", "PTu", "PTv", "4.0">>,
       <<"+", "Lp1", "Lq1", "P0u", "P1v", "PTu", "PTv", "2.0">>,
       <<"+", "Lp1", "Lq1", "P1u", "P0v", "PTu", "PTv", "2.0">>,
       <<"+", "Lp1", "Lq1", "P0u", "P2v", "PTu", "PTv", "2.0">>,
       <<"+", "Lp1", "Lq1", "P2u", "P0v", "PTu", "PTv", "2.0">>,
       <<"-", "Lp1", "Lq1", "P1u", "P2v", "PTu", "PTv", "2.0">>,
       <<"-", "Lp1", "Lq1", "P2u", "P1v", "PTu", "PTv", "2.0">> >>

\* line 238: the numerator, the square root and 28 more terms
Numerator238 ==
    << <<"+", "sqrt", "(1.0 / 2.0)">>, <<"+", "P0u", "P1v", "(1.0 / 2.0)">>,
       <<"-", "P1u", "P0v", "(1.0 / 2.0)">>, <<"-", "P0u", "PTv", "(1.0 / 2.0)">>,
       <<"+", "P0v", "PTu", "(1.0 / 2.0)">>, <<"+", "P1u", "PTv", "(1.0 / 2.0)">>,
       <<"-", "P1v", "PTu", "(1.0 / 2.0)">>, <<"-", "Lp1", "P0u", "P1v", "(1.0 / 2.0)">>,
       <<"+", "Lp1", "P1u", "P0v", "(1.0 / 2.0)">>, <<"+", "Lp1", "P0u", "P2v">>,
       <<"-", "Lp1", "P2u", "P0v">>, <<"-", "Lp2", "P0u", "P1v", "(1.0 / 2.0)">>,
       <<"+", "Lp2", "P1u", "P0v", "(1.0 / 2.0)">>, <<"-", "Lp1", "P1u", "P2v", "(1.0 / 2.0)">>,
       <<"+", "Lp1", "P2u", "P1v", "(1.0 / 2.0)">>, <<"+", "Lp2", "P0u", "P2v", "(1.0 / 2.0)">>,
       <<"-", "Lp2", "P2u", "P0v", "(1.0 / 2.0)">>, <<"-", "Lp2", "P1u", "P2v", "(1.0 / 2.0)">>,
       <<"+", "Lp2", "P2u", "P1v", "(1.0 / 2.0)">>, <<"+", "Lq1", "P0u", "P1v", "(1.0 / 2.0)">>,
       <<"-", "Lq1", "P1u", "P0v", "(1.0 / 2.0)">>, <<"-", "Lp1", "P0u", "PTv", "(1.0 / 2.0)">>,
       <<"+", "Lp1", "P0v", "PTu", "(1.0 / 2.0)">>, <<"+", "Lp1", "P2u", "PTv", "(1.0 / 2.0)">>,
       <<"-", "Lp1", "P2v", "PTu", "(1.0 / 2.0)">>, <<"-", "Lq1", "P0u", "PTv", "(1.0 / 2.0)">>,
       <<"+", "Lq1", "P0v", "PTu", "(1.0 / 2.0)">>, <<"+", "Lq1", "P1u", "PTv", "(1.0 / 2.0)">>,
       <<"-", "Lq1", "P1v", "PTu", "(1.0 / 2.0)">> >>

\* line 241: the 195 terms under the square root
Radicand241 ==
    << <<"+", "Lp1", "Lp1", "P0u", "P0u", "P2v", "P2v">>,
       <<"-", "2", "Lp1", "Lp1", "P0u", "P0u", "P2v", "PTv">>,
       <<"+", "Lp1", "Lp1", "P0u", "P0u", "PTv", "PTv">>,
       <<"-", "2", "Lp1", "Lp1", "P0u", "P2u", "P0v", "P2v">>,
       <<"+", "2", "Lp1", "Lp1", "P0u", "P2u", "P0v", "PTv">>,
       <<"+", "2", "Lp1", "Lp1", "P0u", "P2u", "P2v", "PTv">>,
       <<"-", "2", "Lp1", "Lp1", "P0u", "P2u", "PTv", "PTv">>,
       <<"+", "2", "Lp1", "Lp1", "P0u", "P0v", "P2v", "PTu">>,
       <<"-", "2", "Lp1", "Lp1", "P0u", "P0v", "PTu", "PTv">>,
       <<"-", "2", "Lp1", "Lp1", "P0u", "P2v", "P2v", "PTu">>,
       <<"+", "2", "Lp1", "Lp1", "P0u", "P2v", "PTu", "PTv">>,
       <<"+", "Lp1", "Lp1", "P2u", "P2u", "P0v", "P0v">>,
       <<"-", "2", "Lp1", "Lp1", "P2u", "P2u", "P0v", "PTv">>,
       <<"+", "Lp1", "Lp1", "P2u", "P2u", "PTv", "PTv">>,
       <<"-", "2", "Lp1", "Lp1", "P2u", "P0v", "P0v", "PTu">>,
       <<"+", "2", "Lp1", "Lp1", "P2u", "P0v", "P2v", "PTu">>,
       <<"+", "2", "Lp1", "Lp1", "P2u", "P0v", "PTu", "PTv">>,
       <<"-", "2", "Lp1", "Lp1", "P2u", "P2v", "PTu", "PTv">>,
       <<"+", "Lp1", "Lp1", "P0v", "P0v", "PTu", "PTu">>,
       <<"-", "2", "Lp1", "Lp1", "P0v", "P2v", "PTu", "PTu">>,
       <<"+", "Lp1", "Lp1", "P2v", "P2v", "PTu", "PTu">>,
       <<"-", "2", "Lp1", "Lp2", "P0u", "P0u", "P1v", "P2v">>,
       <<"+", "2", "Lp1", "Lp2", "P0u", "P0u", "P1v", "PTv">>,
       <<"+", "2", "Lp1", "Lp2", "P0u", "P0u", "P2v", "P2v">>,
       <<"-", "2", "Lp1", "Lp2", "P0u", "P0u", "P2v", "PTv">>,
       <<"+", "2", "Lp1", "Lp2", "P0u", "P1u", "P0v", "P2v">>,
       <<"-", "2", "Lp1", "Lp2", "P0u", "P1u", "P0v", "PTv">>,
       <<"-", "2", "Lp1", "Lp2", "P0u", "P1u", "P2v", "P2v">>,
       <<"+", "2", "Lp1", "Lp2", "P0u", "P1u", "P2v", "PTv">>,
       <<"+", "2", "Lp1", "Lp2", "P0u", "P2u", "P0v", "P1v">>,
       <<"-", "4", "Lp1", "Lp2", "P0u", "P2u", "P0v", "P2v">>,
       <<"+", "2", "Lp1", "Lp2", "P0u", "P2u", "P0v", "PTv">>,
       <<"+", "2", "Lp1", "Lp2", "P0u", "P2u", "P1v", "P2v">>,
       <<"-", "4", "Lp1", "Lp2", "P0u", "P2u", "P1v", "PTv">>,
       <<"+", "2", "Lp1", "Lp2", "P0u", "P2u", "P2v", "PTv">>,
       <<"-", "2", "Lp1", "Lp2", "P0u", "P0v", "P1v", "PTu">>,
       <<"+", "2", "Lp1", "Lp2", "P0u", "P0v", "P2v", "PTu">>,
       <<"+", "2", "Lp1", "Lp2", "P0u", "P1v", "P2v", "PTu">>,
       <<"-", "2", "Lp1", "Lp2", "P0u", "P2v", "P2v", "PTu">>,
       <<"-", "2", "Lp1", "Lp2", "P1u", "P2u", "P0v", "P0v">>,
       <<"+", "2", "Lp1", "Lp2", "P1u", "P2u", "P0v", "P2v">>,
       <<"+", "2", "Lp1", "Lp2", "P1u", "P2u", "P0v", "PTv">>,
       <<"-", "2", "Lp1", "Lp2", "P1u", "P2u", "P2v", "PTv">>,
       <<"+", "2", "Lp1", "Lp2", "P1u", "P0v", "P0v", "PTu">>,
       <<"-", "4", "Lp1", "Lp2", "P1u", "P0v", "P2v", "PTu">>,
       <<"+", "2", "Lp1", "Lp2", "P1u", "P2v", "P2v", "PTu">>,
       <<"+", "2", "Lp1", "Lp2", "P2u", "P2u", "P0v", "P0v">>,
       <<"-", "2", "Lp1", "Lp2", "P2u", "P2u", "P0v", "P1v">>,
       <<"-", "2", "Lp1", "Lp2", "P2u", "P2u", "P0v", "PTv">>,
       <<"+", "2", "Lp1", "Lp2", "P2u", "P2u", "P1v", "PTv">>,
       <<"-", "2", "Lp1", "Lp2", "P2u", "P0v", "P0v", "PTu">>,
       <<"+", "2", "Lp1", "Lp2", "P2u", "P0v", "P1v", "PTu">>,
       <<"+", "2", "Lp1", "Lp2", "P2u", "P0v", "P2v", "PTu">>,
       <<"-", "2", "Lp1", "Lp2", "P2u", "P1v", "P2v", "PTu">>,
       <<"-", "2", "Lp1", "Lq1", "P0u", "P0u", "P1v", "P2v">>,
       <<"+", "2", "Lp1", "Lq1", "P0u", "P0u", "P1v", "PTv">>,
       <<"+", "2", "Lp1", "Lq1", "P0u", "P0u", "P2v", "PTv">>,
       <<"-", "2", "Lp1", "Lq1", "P0u", "P0u", "PTv", "PTv">>,
       <<"+", "2", "Lp1", "Lq1", "P0u", "P1u", "P0v", "P2v">>,
       <<"-", "2", "Lp1", "Lq1", "P0u", "P1u", "P0v", "PTv">>,
       <<"-", "2", "Lp1", "Lq1", "P0u", "P1u", "P2v", "PTv">>,
       <<"+", "2", "Lp1", "Lq1", "P0u", "P1u", "PTv", "PTv">>,
       <<"+", "2", "Lp1", "Lq1", "P0u", "P2u", "P0v", "P1v">>,
       <<"-", "2", "Lp1", "Lq1", "P0u", "P2u", "P0v", "PTv">>,
       <<"-", "2", "Lp1", "Lq1", "P0u", "P2u", "P1v", "PTv">>,
       <<"+", "2", "Lp1", "Lq1", "P0u", "P2u", "PTv", "PTv">>,
       <<"-", "2", "Lp1", "Lq1", "P0u", "P0v", "P1v", "PTu">>,
       <<"-", "2", "Lp1", "Lq1", "P0u", "P0v", "P2v", "PTu">>,
       <<"+", "4", "Lp1", "Lq1", "P0u", "P0v", "PTu", "PTv">>,
       <<"+", "4", "Lp1", "Lq1", "P0u", "P1v", "P2v", "PTu">>,
       <<"-", "2", "Lp1", "Lq1", "P0u", "P1v", "PTu", "PTv">>,
       <<"-", "2", "Lp1", "Lq1", "P0u", "P2v", "PTu", "PTv">>,
       <<"-", "2", "Lp1", "Lq1", "P1u", "P2u", "P0v", "P0v">>,
       <<"+", "4", "Lp1", "Lq1", "P1u", "P2u", "P0v", "PTv">>,
       <<"-", "2", "Lp1", "Lq1", "P1u", "P2u", "PTv", "PTv">>,
       <<"+", "2", "Lp1", "Lq1", "P1u", "P0v", "P0v", "PTu">>,
       <<"-", "2", "Lp1", "Lq1", "P1u", "P0v", "P2v", "PTu">>,
       <<"-", "2", "Lp1", "Lq1", "P1u", "P0v", "PTu", "PTv">>,
       <<"+", "2", "Lp1", "Lq1", "P1u", "P2v", "PTu", "PTv">>,
       <<"+", "2", "Lp1", "Lq1", "P2u", "P0v", "P0v", "PTu">>,
       <<"-", "2", "Lp1", "Lq1", "P2u", "P0v", "P1v", "PTu">>,
       <<"-", "2", "Lp1", "Lq1", "P2u", "P0v", "PTu", "PTv">>,
       <<"+", "2", "Lp1", "Lq1", "P2u", "P1v", "PTu", "PTv">>,
       <<"-", "2", "Lp1", "Lq1", "P0v", "P0v", "PTu", "PTu">>,
       <<"+", "2", "Lp1", "Lq1", "P0v", "P1v", "PTu", "PTu">>,
       <<"+", "2", "Lp1", "Lq1", "P0v", "P2v", "PTu", "PTu">>,
       <<"-", "2", "Lp1", "Lq1", "P1v", "P2v", "PTu", "PTu">>,
       <<"+", "Lp2", "Lp2", "P0u", "P0u", "P1v", "P1v">>,
       <<"-", "2", "Lp2", "Lp2", "P0u", "P0u", "P1v", "P2v">>,
       <<"+", "Lp2", "Lp2", "P0u", "P0u", "P2v", "P2v">>,
       <<"-", "2", "Lp2", "Lp2", "P0u", "P1u", "P0v", "P1v">>,
       <<"+", "2", "Lp2", "Lp2", "P0u", "P1u", "P0v", "P2v">>,
       <<"+", "2", "Lp2", "Lp2", "P0u", "P1u", "P1v", "P2v">>,
       <<"-", "2", "Lp2", "Lp2", "P0u", "P1u", "P2v", "P2v">>,
       <<"+", "2", "Lp2", "Lp2", "P0u", "P2u", "P0v", "P1v">>,
       <<"-", "2", "Lp2", "Lp2", "P0u", "P2u", "P0v", "P2v">>,
       <<"-", "2", "Lp2", "Lp2", "P0u", "P2u", "P1v", "P1v">>,
       <<"+", "2", "Lp2", "Lp2", "P0u", "P2u", "P1v", "P2v">>,
       <<"+", "Lp2", "Lp2", "P1u", "P1u", "P0v", "P0v">>,
       <<"-", "2", "Lp2", "Lp2", "P1u", "P1u", "P0v", "P2v">>,
       <<"+", "Lp2", "Lp2", "P1u", "P1u", "P2v", "P2v">>,
       <<"-", "2", "Lp2", "Lp2", "P1u", "P2u", "P0v", "P0v">>,
       <<"+", "2", "Lp2", "Lp2", "P1u", "P2u", "P0v", "P1v">>,
       <<"+", "2", "Lp2", "Lp2", "P1u", "P2u", "P0v", "P2v">>,
       <<"-", "2", "Lp2", "Lp2", "P1u", "P2u", "P1v", "P2v">>,
       <<"+", "Lp2", "Lp2", "P2u", "P2u", "P0v", "P0v">>,
       <<"-", "2", "Lp2", "Lp2", "P2u", "P2u", "P0v", "P1v">>,
       <<"+", "Lp2", "Lp2", "P2u", "P2u", "P1v", "P1v">>,
       <<"-", "2", "Lp2", "Lq1", "P0u", "P0u", "P1v", "P1v">>,
       <<"+", "2", "Lp2", "Lq1", "P0u", "P0u", "P1v", "P2v">>,
       <<"+", "2", "Lp2", "Lq1", "P0u", "P0u", "P1v", "PTv">>,
       <<"-", "2", "Lp2", "Lq1", "P0u", "P0u", "P2v", "PTv">>,
       <<"+", "4", "Lp2", "Lq1", "P0u", "P1u", "P0v", "P1v">>,
       <<"-", "2", "Lp2", "Lq1", "P0u", "P1u", "P0v", "P2v">>,
       <<"-", "2", "Lp2", "Lq1", "P0u", "P1u", "P0v", "PTv">>,
       <<"-", "2", "Lp2", "Lq1", "P0u", "P1u", "P1v", "P2v">>,
       <<"-", "2", "Lp2", "Lq1", "P0u", "P1u", "P1v", "PTv">>,
       <<"+", "4", "Lp2", "Lq1", "P0u", "P1u", "P2v", "PTv">>,
       <<"-", "2", "Lp2", "Lq1", "P0u", "P2u", "P0v", "P1v">>,
       <<"+", "2", "Lp2", "Lq1", "P0u", "P2u", "P0v", "PTv">>,
       <<"+", "2", "Lp2", "Lq1", "P0u", "P2u", "P1v", "P1v">>,
       <<"-", "2", "Lp2", "Lq1", "P0u", "P2u", "P1v", "PTv">>,
       <<"-", "2", "Lp2", "Lq1", "P0u", "P0v", "P1v", "PTu">>,
       <<"+", "2", "Lp2", "Lq1", "P0u", "P0v", "P2v", "PTu">>,
       <<"+", "2", "Lp2", "Lq1", "P0u", "P1v", "P1v", "PTu">>,
       <<"-", "2", "Lp2", "Lq1", "P0u", "P1v", "P2v", "PTu">>,
       <<"-", "2", "Lp2", "Lq1", "P1u", "P1u", "P0v", "P0v">>,
       <<"+", "2", "Lp2", "Lq1", "P1u", "P1u", "P0v", "P2v">>,
       <<"+", "2", "Lp2", "Lq1", "P1u", "P1u", "P0v", "PTv">>,
       <<"-", "2", "Lp2", "Lq1", "P1u", "P1u", "P2v", "PTv">>,
       <<"+", "2", "Lp2", "Lq1", "P1u", "P2u", "P0v", "P0v">>,
       <<"-", "2", "Lp2", "Lq1", "P1u", "P2u", "P0v", "P1v">>,
       <<"-", "2", "Lp2", "Lq1", "P1u", "P2u", "P0v", "PTv">>,
       <<"+", "2", "Lp2", "Lq1", "P1u", "P2u", "P1v", "PTv">>,
       <<"+", "2", "Lp2", "Lq1", "P1u", "P0v", "P0v", "PTu">>,
       <<"-", "2", "Lp2", "Lq1", "P1u", "P0v", "P1v", "PTu">>,
       <<"-", "2", "Lp2", "Lq1", "P1u", "P0v", "P2v", "PTu">>,
       <<"+", "2", "Lp2", "Lq1", "P1u", "P1v", "P2v", "PTu">>,
       <<"-", "2", "Lp2", "Lq1", "P2u", "P0v", "P0v", "PTu">>,
       <<"+", "4", "Lp2", "Lq1", "P2u", "P0v", "P1v", "PTu">>,
       <<"-", "2", "Lp2", "Lq1", "P2u", "P1v", "P1v", "PTu">>,
       <<"+", "4", "Lp2", "P0u", "P0u", "P1v", "P2v">>,
       <<"-", "4", "Lp2", "P0u", "P0u", "P1v", "PTv">>,
       <<"-", "4", "Lp2", "P0u", "P0u", "P2v", "PTv">>,
       <<"+", "4", "Lp2", "P0u", "P0u", "PTv", "PTv">>,
       <<"-", "4", "Lp2", "P0u", "P1u", "P0v", "P2v">>,
       <<"+", "4", "Lp2", "P0u", "P1u", "P0v", "PTv">>,
       <<"+", "4", "Lp2", "P0u", "P1u", "P2v", "PTv">>,
       <<"-", "4", "Lp2", "P0u", "P1u", "PTv", "PTv">>,
       <<"-", "4", "Lp2", "P0u", "P2u", "P0v", "P1v">>,
       <<"+", "4", "Lp2", "P0u", "P2u", "P0v", "PTv">>,
       <<"+", "4", "Lp2", "P0u", "P2u", "P1v", "PTv">>,
       <<"-", "4", "Lp2", "P0u", "P2u", "PTv", "PTv">>,
       <<"+", "4", "Lp2", "P0u", "P0v", "P1v", "PTu">>,
       <<"+", "4", "Lp2", "P0u", "P0v", "P2v", "PTu">>,
       <<"-", "8", "Lp2", "P0u", "P0v", "PTu", "PTv">>,
       <<"-", "8", "Lp2", "P0u", "P1v", "P2v", "PTu">>,
       <<"+", "4", "Lp2", "P0u", "P1v", "PTu", "PTv">>,
       <<"+", "4", "Lp2", "P0u", "P2v", "PTu", "PTv">>,
       <<"+", "4", "Lp2", "P1u", "P2u", "P0v", "P0v">>,
       <<"-", "8", "Lp2", "P1u", "P2u", "P0v", "PTv">>,
       <<"+", "4", "Lp2", "P1u", "P2u", "PTv", "PTv">>,
       <<"-", "4", "Lp2", "P1u", "P0v", "P0v", "PTu">>,
       <<"+", "4", "Lp2", "P1u", "P0v", "P2v", "PTu">>,
       <<"+", "4", "Lp2", "P1u", "P0v", "PTu", "PTv">>,
       <<"-", "4", "Lp2", "P1u", "P2v", "PTu", "PTv">>,
       <<"-", "4", "Lp2", "P2u", "P0v", "P0v", "PTu">>,
       <<"+", "4", "Lp2", "P2u", "P0v", "P1v", "PTu">>,
       <<"+", "4", "Lp2", "P2u", "P0v", "PTu", "PTv">>,
       <<"-", "4", "Lp2", "P2u", "P1v", "PTu", "PTv">>,
       <<"+", "4", "Lp2", "P0v", "P0v", "PTu", "PTu">>,
       <<"-", "4", "Lp2", "P0v", "P1v", "PTu", "PTu">>,
       <<"-", "4", "Lp2", "P0v", "P2v", "PTu", "PTu">>,
       <<"+", "4", "Lp2", "P1v", "P2v", "PTu", "PTu">>,
       <<"+", "Lq1", "Lq1", "P0u", "P0u", "P1v", "P1v">>,
       <<"-", "2", "Lq1", "Lq1", "P0u", "P0u", "P1v", "PTv">>,
       <<"+", "Lq1", "Lq1", "P0u", "P0u", "PTv", "PTv">>,
       <<"-", "2", "Lq1", "Lq1", "P0u", "P1u", "P0v", "P1v">>,
       <<"+", "2", "Lq1", "Lq1", "P0u", "P1u", "P0v", "PTv">>,
       <<"+", "2", "Lq1", "Lq1", "P0u", "P1u", "P1v", "PTv">>,
       <<"-", "2", "Lq1", "Lq1", "P0u", "P1u", "PTv", "PTv">>,
       <<"+", "2", "Lq1", "Lq1", "P0u", "P0v", "P1v", "PTu">>,
       <<"-", "2", "Lq1", "Lq1", "P0u", "P0v", "PTu", "PTv">>,
       <<"-", "2", "Lq1", "Lq1", "P0u", "P1v", "P1v", "PTu">>,
       <<"+", "2", "Lq1", "Lq1", "P0u", "P1v", "PTu", "PTv">>,
       <<"+", "Lq1", "Lq1", "P1u", "P1u", "P0v", "P0v">>,
       <<"-", "2", "Lq1", "Lq1", "P1u", "P1u", "P0v", "PTv">>,
       <<"+", "Lq1", "Lq1", "P1u", "P1u", "PTv", "PTv">>,
       <<"-", "2", "Lq1", "Lq1", "P1u", "P0v", "P0v", "PTu">>,
       <<"+", "2", "Lq1", "Lq1", "P1u", "P0v", "P1v", "PTu">>,
       <<"+", "2", "Lq1", "Lq1", "P1u", "P0v", "PTu", "PTv">>,
       <<"-", "2", "Lq1", "Lq1", "P1u", "P1v", "PTu", "PTv">>,
       <<"+", "Lq1", "Lq1", "P0v", "P0v", "PTu", "PTu">>,
       <<"-", "2", "Lq1", "Lq1", "P0v", "P1v", "PTu", "PTu">>,
       <<"+", "Lq1", "Lq1", "P1v", "P1v", "PTu", "PTu">> >>

\* line 241: the numerator, the square root and 28 more terms
Numerator241 ==
    << <<"+", "sqrt">>, <<"+", "2", "P0u", "P1v">>, <<"-", "2", "P1u", "P0v">>,
       <<"-", "2", "P0u", "PTv">>, <<"+", "2", "P0v", "PTu">>, <<"+", "2", "P1u", "PTv">>,
       <<"-", "2", "P1v", "PTu">>, <<"-", "2", "Lp1", "P0u", "P1v">>,
       <<"+", "2", "Lp1", "P1u", "P0v">>, <<"+", "Lp1", "P0u", "P2v">>,
       <<"-", "Lp1", "P2u", "P0v">>, <<"-", "Lp2", "P0u", "P1v">>, <<"+", "Lp2", "P1u", "P0v">>,
       <<"-", "2", "Lp1", "P1u", "P2v">>, <<"+", "2", "Lp1", "P2u", "P1v">>,
       <<"+", "Lp2", "P0u", "P2v">>, <<"-", "Lp2", "P2u", "P0v">>, <<"-", "Lp2", "P1u", "P2v">>,
       <<"+", "Lp2", "P2u", "P1v">>, <<"+", "Lq1", "P0u", "P1v">>, <<"-", "Lq1", "P1u", "P0v">>,
       <<"+", "Lp1", "P0u", "PTv">>, <<"-", "Lp1", "P0v", "PTu">>, <<"-", "Lp1", "P2u", "PTv">>,
       <<"+", "Lp1", "P2v", "PTu">>, <<"-", "Lq1", "P0u", "PTv">>, <<"+", "Lq1", "P0v", "PTu">>,
       <<"+", "Lq1", "P1u", "PTv">>, <<"-", "Lq1", "P1v", "PTu">> >>

\* lines 238 and 241: the 12 terms of the denominator, the same in both
Denominator ==
    << <<"+", "P0u", "P1v">>, <<"-", "P1u", "P0v">>, <<"-", "P0u", "PTv">>, <<"+", "P0v", "PTu">>,
       <<"+", "P1u", "PTv">>, <<"-", "P1v", "PTu">>, <<"-", "Lp1", "P0u", "P1v">>,
       <<"+", "Lp1", "P1u", "P0v">>, <<"+", "Lp1", "P0u", "P2v">>, <<"-", "Lp1", "P2u", "P0v">>,
       <<"-", "Lp1", "P1u", "P2v">>, <<"+", "Lp1", "P2u", "P1v">> >>

\* the products in parentheses of lines 238 and 241, and what is squared
Squared ==
    ("(PTu*PTu)" :> "PTu") @@ ("(PTv*PTv)" :> "PTv") @@ ("(P0u*P0u)" :> "P0u")
    @@ ("(P0v*P0v)" :> "P0v") @@ ("(P1u*P1u)" :> "P1u") @@ ("(P1v*P1v)" :> "P1v")
    @@ ("(P2u*P2u)" :> "P2u") @@ ("(P2v*P2v)" :> "P2v") @@ ("(Lp1*Lp1)" :> "Lp1")
    @@ ("(Lp2*Lp2)" :> "Lp2") @@ ("(Lq1*Lq1)" :> "Lq1")

\* the literals among the factors: n and e of n * 10^e
Spelled ==
    ("2" :> <<2, 0>>) @@ ("4" :> <<4, 0>>) @@ ("8" :> <<8, 0>>) @@ ("2.0" :> <<20, -1>>)
    @@ ("4.0" :> <<40, -1>>) @@ ("6.0" :> <<60, -1>>) @@ ("8.0" :> <<80, -1>>)

\* lines 221-228 and 232-234: the coordinates and the left hand fit
\* converted to double (a float is the double of the same value)
Locals(PT, P0, P1, P2, leftHandFit) ==
    ("PTu" :> PT.u) @@ ("PTv" :> PT.v) @@ ("P0u" :> P0.u) @@ ("P0v" :> P0.v)
    @@ ("P1u" :> P1.u) @@ ("P1v" :> P1.v) @@ ("P2u" :> P2.u) @@ ("P2v" :> P2.v)
    @@ ("Lp1" :> leftHandFit[1]) @@ ("Lp2" :> leftHandFit[2])
    @@ ("Lq1" :> leftHandFit[3])

\* the factors of lines 238 and 241 but the square root: the locals, the
\* products in parentheses, the literals (an int literal is converted to
\* double where it meets a double) and the quotient (1.0 / 2.0)
Operands(locals) ==
    locals
    @@ [k \in DOMAIN Squared |-> FMul(locals[Squared[k]], locals[Squared[k]])]
    @@ [k \in DOMAIN Spelled |-> Dec(Spelled[k][1], Spelled[k][2])]
    @@ ("(1.0 / 2.0)" :> FDiv(One, Two))

\* the operands with the value of the square root among them
WithRoot(env, root) == ("sqrt" :> root) @@ env

\* acc times the factors lo..hi of a term, one after the other (a NaN stays
\* a NaN whatever it is multiplied by)
RECURSIVE Factors(_, _, _, _, _)
Factors(env, term, acc, lo, hi) ==
    IF acc = NaN \/ lo > hi THEN acc
    ELSE IF lo = hi THEN FMul(acc, env[term[lo]])
    ELSE Factors(env, term, Factors(env, term, acc, lo, (lo + hi) \div 2),
                 ((lo + hi) \div 2) + 1, hi)

\* the product of a term: term[1] is its sign, term[2] its first factor
Term(env, term) == Factors(env, term, env[term[2]], 3, Len(term))

\* acc + t or acc - t, and t alone for the first term of a sum (which has
\* the sign + in every table): a - b is a + (-b)
Signed(acc, sign, t, first) ==
    IF first THEN t ELSE FAdd(acc, IF sign = "-" THEN FNeg(t) ELSE t)

\* the terms lo..hi of a table added to acc or subtracted from it, one after
\* the other (a NaN stays a NaN whatever is added to it)
RECURSIVE Terms(_, _, _, _, _)
Terms(env, table, acc, lo, hi) ==
    IF acc = NaN \/ lo > hi THEN acc
    ELSE IF lo = hi
    THEN Only({Signed(acc, table[lo][1], t, lo = 1) : t \in {Term(env, table[lo])}})
    ELSE Terms(env, table, Terms(env, table, acc, lo, (lo + hi) \div 2),
               ((lo + hi) \div 2) + 1, hi)

\* a sum of terms as the code computes it
Expanded(env, table) == Terms(env, table, Zero, 1, Len(table))

\* the quotient of line 238 or of line 241, root and denominator being the
\* values of the square root and of the sum that is the denominator
Fraction(env, line, root, denominator) ==
    FDiv(Expanded(WithRoot(env, root), IF line = 238 THEN Numerator238 ELSE Numerator241),
         IF line = 238 THEN denominator ELSE FMul(Two, denominator))

\* line 238: dR is the quotient; line 241: dR is 1.0 less the quotient
Assigned(line, ratio) == IF line = 238 THEN ratio ELSE FSub(One, ratio)

\* line 238 or line 241
DRAt(env, line) ==
    Only({Assigned(line, ratio) :
            ratio \in {Fraction(env, line, root, denominator) :
                         root \in {FSqrt(radicand) :
                                     radicand \in {Expanded(env, IF line = 238 THEN Radicand238
                                                                  ELSE Radicand241)}},
                         denominator \in {Expanded(env, Denominator)}}})

\* lines 237-242
DR(env) == DRAt(env, IF FLt(env["Lp1"], Zero) THEN 238 ELSE 241)

\* line 245 with x = dR, line 248 with x = 1 - dR
LevelAt(rightHandFit, x) ==
    FDiv(FAdd(FMul(rightHandFit[1], x), rightHandFit[2]), FAdd(x, rightHandFit[3]))

\* lines 244-250
Level(rightHandFit, dR) ==
    LevelAt(rightHandFit, IF FLt(rightHandFit[1], Zero) THEN dR ELSE FSub(One, dR))

\* the double of line 252 returned as a float
findCoefficient_(PT, P0, P1, P2, rightHandFit, leftHandFit) ==
    Only({ToFloat(level) :
            level \in {Level(rightHandFit, dR) :
                         dR \in {DR(env) :
                                   env \in {Operands(Locals(PT, P0, P1, P2, leftHandFit))}}}})

\* line 109
Luma(e, raw) ==
    DivF(AddF(AddF(MulF(raw.R, e.redLum_), MulF(raw.G, e.greenLum_)),
              MulF(raw.B, e.blueLum_)),
         e.maxLum_)

Cube(t) == MulF(MulF(t, t), t)

\* lines 112-113
TargetLuma(L) == Cube(DivF(AddF(L, OfInt(16)), OfInt(116)))

\* lines 119-121
Times(raw, C) == Struct([c \in Channels |-> MulF(raw[c], C)])

\* lines 130-132: the product with the double 1.0 / maxRaw, stored in a float
TimesDouble(raw, c) == Struct([k \in Channels |-> ToFloat(FMul(raw[k], c))])

\* lines 124-126
Larger(maxRaw, x) == IF FGt(x, maxRaw) THEN x ELSE maxRaw
MaxRaw(raw) == Larger(Larger(raw.R, raw.G), raw.B)

\* lines 129-133
LimitWith(raw, maxRaw) ==
    IF FGt(maxRaw, One) THEN TimesDouble(raw, FDiv(One, maxRaw)) ELSE raw
LimitToFullPower(raw) == Only({LimitWith(raw, maxRaw) : maxRaw \in {MaxRaw(raw)}})

\* lines 108-121: the coefficients scaled to the target luma
Scaled(e, target, raw) ==
    Only({Times(raw, C) :
            C \in {DivF(Y_target, Y) : Y_target \in {TargetLuma(target.L)},
                                       Y \in {Luma(e, raw)}}})

\* lines 108-133: luminance scaling and the limit to full power
ScaleToLuma(e, target, raw) ==
    Only({LimitToFullPower(scaled) : scaled \in {Scaled(e, target, raw)}})

\* the primaries and the fits in the order red, green, blue
Primaries(e) == <<e.redUv_, e.greenUv_, e.blueUv_>>
Fits(e) == <<e.redToGreenFit_, e.greenToBlueFit_, e.blueToRedFit_>>

\* three of them in their cyclic order from the i-th on
From(three, i) == <<three[i], three[(i % 3) + 1], three[((i + 1) % 3) + 1]>>

\* a call of lines 104-106: P0, P1 and P2 are the primaries, and the right
\* hand and the left hand fit the fits, in their order from one colour on
Coefficient(target, P, fits) ==
    findCoefficient_(target, P[1], P[2], P[3], fits[1], fits[2])

\* lines 104-106: red from the first on, green from the second, blue from
\* the third
CoefficientFrom(e, target) ==
    [i \in 1..3 |-> Coefficient(target, From(Primaries(e), i), From(Fits(e), i))]

Ordered(f) == [R |-> f[1], G |-> f[2], B |-> f[3]]

\* lines 100-106
Coefficients(e, target) == Ordered(CoefficientFrom(e, target))

\* lines 153-154: the literals of the fits of u' and v' against the z-score
\* x, in the order of the source
FitUNum == <<Dec(-1747, -7), Dec(1833, -4), Dec(872, -3), Dec(1227, -3)>>
FitUDen == <<Dec(4813, -3), Dec(5933, -3)>>
FitVNum == <<Dec(311, -6), Dec(9124, -7), Dec(3856, -4), Dec(1873, -3), Dec(2619, -3)>>
FitVDen == <<Dec(4323, -3), Dec(5485, -3)>>

\* line 153, num and den being its literals
FitU(x, x2, x3, num, den) ==
    FDiv(FAdd(FAdd(FAdd(FMul(num[1], x3), FMul(num[2], x2)), FMul(num[3], x)), num[4]),
         FAdd(FAdd(x2, FMul(den[1], x)), den[2]))

\* line 154
FitV(x, x2, x3, x4, num, den) ==
    FDiv(FAdd(FAdd(FAdd(FAdd(FMul(num[1], x4), FMul(num[2], x3)), FMul(num[3], x2)),
                   FMul(num[4], x)),
              num[5]),
         FAdd(FAdd(x2, FMul(den[1], x)), den[2]))

\* lines 150-154 and the conversion to float of line 157
FitUv(x, x2, x3) ==
    Only({[u |-> ToFloat(u), v |-> ToFloat(v)] :
            u \in {FitU(x, x2, x3, FitUNum, FitUDen)},
            v \in {FitV(x, x2, x3, x4, FitVNum, FitVDen) :
                     x4 \in {FMul(x3, x)}}})

\* lines 151-152
UvOfSquare(x, x2) == Only({FitUv(x, x2, x3) : x3 \in {FMul(x2, x)}})

\* line 150
UvOfX(x) == Only({UvOfSquare(x, x2) : x2 \in {FMul(x, x)}})

\* line 149: T is converted to int and to double
TemperatureUv(T) ==
    Only({UvOfX(x) : x \in {FDiv(FSub(OfInt(T), Dec(55000, -1)), Dec(25990, -1))}})

\* lines 157-160
WithLightness(e, L, uv) ==
    [L |-> IF FGt(L, Zero) THEN L ELSE e.luv_.L, u |-> uv.u, v |-> uv.v]

\* the floats of the decimal literals n * 10^e that l holds as <<n, e>>
Floats(l) == [k \in DOMAIN l |-> Flt(l[k][1], l[k][2])]

\* the same for each of a sequence of structs
Floated(rows) == [i \in DOMAIN rows |-> Floats(rows[i])]

\* the calibration of 18 numbers in the order of LedEngine.h: u and v of the
\* three primaries (whose L is 100), the three fluxes and the three fits
CalibrationOf(f) ==
    [redUv_ |-> [L |-> OfInt(100), u |-> f[1], v |-> f[2]],
     greenUv_ |-> [L |-> OfInt(100), u |-> f[3], v |-> f[4]],
     blueUv_ |-> [L |-> OfInt(100), u |-> f[5], v |-> f[6]],
     redLum_ |-> f[7],
     greenLum_ |-> f[8],
     blueLum_ |-> f[9],
     redToGreenFit_ |-> <<f[10], f[11], f[12]>>,
     greenToBlueFit_ |-> <<f[13], f[14], f[15]>>,
     blueToRedFit_ |-> <<f[16], f[17], f[18]>>]

\* the default member initializers, LedEngine.h lines 230-275
DefaultCalibration ==
    CalibrationOf(Floats(<< <<5535, -4>>, <<5170, -4>>,
                            <<373, -4>>, <<5856, -4>>,
                            <<1679, -4>>, <<1153, -4>>,
                            <<5, -1>>, <<10, -1>>, <<75, -2>>,
                            <<29658, -4>>, <<0, -1>>, <<19658, -4>>,
                            <<13587, -4>>, <<0, -1>>, <<3587, -4>>,
                            <<-2121, -4>>, <<2121, -4>>, <<2121, -4>> >>))

\* LedEngine.h: the initializer of maxLum_, which nothing assigns afterwards
DefaultMaxLum == Flt(225, -2)

(***************************************************************************)
(* The arguments of the calls: samples, of which the Num* bounds say how   *)
(* many are used.                                                          *)
(***************************************************************************)
NumRaw == 3
NumUcs == 4
NumTemp == 4
NumCal == 2

\* at range 1000 the float 251 / 1000 times 1000 is a float below 251, which
\* only the + 0.5 of lines 62-64 brings back to 251
PwmRanges == {255, 1000, 1023}

\* 0.672549 * 255 and 0.358260 * 1023 lie just below a half, and the float
\* products on it; 0.2515 lies between 251 and 252 thousandths
RawSamples ==
    Floated(<< [R |-> <<5, -1>>, G |-> <<2, -1>>, B |-> <<15, -1>>],
               [R |-> <<-25, -2>>, G |-> <<1, 0>>, B |-> <<0, 0>>],
               [R |-> <<672549, -6>>, G |-> <<358260, -6>>, B |-> <<2515, -4>>],
               [R |-> <<101, -3>>, G |-> <<666, -4>>, B |-> <<900001, -6>>] >>)

UcsSamples ==
    Floated(<< [L |-> <<50, 0>>, u |-> <<2, -1>>, v |-> <<45, -2>>],
               [L |-> <<-20, 0>>, u |-> <<2, -1>>, v |-> <<45, -2>>],
               [L |-> <<0, 0>>, u |-> <<2, -1>>, v |-> <<45, -2>>],
               [L |-> <<100, 0>>, u |-> <<3, -1>>, v |-> <<5, -1>>],
               [L |-> <<70, 0>>, u |-> <<1, -1>>, v |-> <<4, -1>>] >>)

TempSamples ==
    << [L |-> OfInt(50), T |-> 2700],
       [L |-> OfInt(0), T |-> 6500],
       [L |-> OfInt(75), T |-> 500],
       [L |-> OfInt(30), T |-> 65535],
       [L |-> OfInt(-5), T |-> 0] >>

\* calibrations: other primaries and fluxes, no flux at all, twice the
\* default fluxes, and the default d itself
CalibrationsBy(d) ==
    << CalibrationOf(Floats(<< <<52, -2>>, <<52, -2>>,
                               <<6, -2>>, <<57, -2>>,
                               <<17, -2>>, <<13, -2>>,
                               <<6, -1>>, <<12, -1>>, <<4, -1>>,
                               <<29658, -4>>, <<0, -1>>, <<19658, -4>>,
                               <<13587, -4>>, <<0, -1>>, <<3587, -4>>,
                               <<-2121, -4>>, <<2121, -4>>, <<2121, -4>> >>)),
       [d EXCEPT !.redLum_ = Zero, !.greenLum_ = Zero, !.blueLum_ = Zero],
       [d EXCEPT !.redLum_ = One, !.greenLum_ = Two, !.blueLum_ = FAdd(One, Half)],
       d >>

CalSamples == CalibrationsBy(DefaultCalibration)

(***************************************************************************)
(* The coefficients are a function of the chromaticities, the fits and the *)
(* target's u and v alone, and the calls reach them with few of these.     *)
(* Their values on the calibrations and the targets that the samples lead  *)
(* to are kept in a table, which is evaluated once; on any other argument  *)
(* Coefficients is evaluated in place.                                     *)
(***************************************************************************)
\* what Coefficients reads of the engine and of the target
Optics(e, target) ==
    <<target.u, target.v,
      e.redUv_.u, e.redUv_.v, e.greenUv_.u, e.greenUv_.v, e.blueUv_.u, e.blueUv_.v,
      e.redToGreenFit_, e.greenToBlueFit_, e.blueToRedFit_>>

\* the temperatures that reach the solver: the samples, the constructor's
\* 1900 and the 65535 that setRaw leaves
SolvedTemperatures(samples) == {1900, UnsetT} \cup {samples[i].T : i \in DOMAIN samples}

SolvedTargets(ucs) ==
    {UnsetLuv} \cup {ucs[i] : i \in DOMAIN ucs}
        \cup {[L |-> Zero] @@ TemperatureUv(T) : T \in SolvedTemperatures(TempSamples)}

SolvedCalls(cals) == {cals[i] : i \in DOMAIN cals} \X SolvedTargets(UcsSamples)

\* one call for each of the distinct arguments
Distinct(calls) ==
    {CHOOSE c \in calls : Optics(c[1], c[2]) = k : k \in {Optics(c[1], c[2]) : c \in calls}}

Table(calls) ==
    {[optics |-> Optics(c[1], c[2]), raw |-> Coefficients(c[1], c[2])] : c \in calls}

Solved == Table(Distinct(SolvedCalls(CalSamples)))

Recall(known, e, target) ==
    IF known = {} THEN Coefficients(e, target) ELSE (CHOOSE r \in known : TRUE).raw

Known(optics) == {r \in Solved : r.optics = optics}

\* the coefficients of lines 100-106, from the table where it has them
Recalled(e, target) == Recall(Known(Optics(e, target)), e, target)

\* lines 100-133: the raw values of a target, as setRaw is given them
Solve(e, target) ==
    Only({ScaleToLuma(e, target, raw) : raw \in {Recalled(e, target)}})

\* lines 92-98
SaveLuv(e, target) ==
    [e EXCEPT !.luv_ = [L |-> IF FLt(target.L, Zero) THEN Zero ELSE target.L,
                        u |-> target.u,
                        v |-> target.v]]

\* lines 90-137
setCie1976Ucs(e, target) ==
    Only({setRaw(SaveLuv(e, target), raw) : raw \in {Solve(e, target)}})

getCie1976Ucs(e) == e.luv_

\* a setColorTemperature that saves T before the values are set, not after
setColorTemperatureSavingFirst(e, L, T) ==
    Only({setCie1976Ucs([e EXCEPT !.T_ = T], luv) :
            luv \in {WithLightness(e, L, uv) : uv \in {TemperatureUv(T)}}})

\* lines 143-166
setColorTemperature(e, L, T) ==
    Only({[setCie1976Ucs(e, luv) EXCEPT !.T_ = T] :
            luv \in {WithLightness(e, L, uv) : uv \in {TemperatureUv(T)}}})

\* lines 139-141
getColorTemperature(e) == e.T_

\* a calibration: the nine arguments of calibrate
CalFields == {"redUv_", "greenUv_", "blueUv_", "redLum_", "greenLum_", "blueLum_",
              "redToGreenFit_", "greenToBlueFit_", "blueToRedFit_"}

\* lines 172-190: the fields calibrate assigns (maxLum_ is not among them)
store(e, c) ==
    [e EXCEPT
       !.redUv_ = [@ EXCEPT !.u = c.redUv_.u, !.v = c.redUv_.v],
       !.greenUv_ = [@ EXCEPT !.u = c.greenUv_.u, !.v = c.greenUv_.v],
       !.blueUv_ = [@ EXCEPT !.u = c.blueUv_.u, !.v = c.blueUv_.v],
       !.redLum_ = c.redLum_,
       !.greenLum_ = c.greenLum_,
       !.blueLum_ = c.blueLum_,
       !.redToGreenFit_ = c.redToGreenFit_,
       !.greenToBlueFit_ = c.greenToBlueFit_,
       !.blueToRedFit_ = c.blueToRedFit_]

\* lines 192-198
Resolve(stored) ==
    IF stored.T_ >= 1000
    THEN setColorTemperature(stored, stored.luv_.L, stored.T_)
    ELSE IF FGe(stored.luv_.L, Zero)
    THEN setCie1976Ucs(stored, stored.luv_)
    ELSE stored

\* a calibrate that updates the current color before it copies its arguments
calibrateResolvingFirst(e, c) == Only({store(resolved, c) : resolved \in {Resolve(e)}})

\* lines 168-199
calibrate(e, c) == Only({Resolve(stored) : stored \in {store(e, c)}})

\* the object as the constructor finds it: the calibration has its default
\* initializers, onOff_, raw_, luv_ and T_ have none (whatever they hold is
\* overwritten before it is used); out holds the zeros that lines 16-20
\* write to the five pins
Fresh(pwmRange, ofNaN) ==
    [f \in CalFields |-> DefaultCalibration[f]] @@
    [maxLum_ |-> DefaultMaxLum,
     pwmRange_ |-> pwmRange,
     onOff_ |-> FALSE,
     raw_ |-> [R |-> Zero, G |-> Zero, B |-> Zero],
     luv_ |-> [L |-> Zero, u |-> Zero, v |-> Zero],
     T_ |-> 0,
     out |-> [p \in Pins |-> 0],
     nanInt |-> ofNaN]

\* a constructor that sets the light on at line 23
LedEngineStartingOn(pwmRange, ofNaN) ==
    setColorTemperature(setOnOff(Fresh(pwmRange, ofNaN), TRUE), OfInt(50), 1900)

\* the constructor, lines 4-25
LedEngine(pwmRange, ofNaN) ==
    setColorTemperature(setOnOff(Fresh(pwmRange, ofNaN), FALSE), OfInt(50), 1900)

(***************************************************************************)
(* The state machine: one engine, called by one caller (the class has no   *)
(* concurrency).  The arguments of the calls are drawn from the samples    *)
(* above.                                                                  *)
(***************************************************************************)
VARIABLES nanInt,   \* static_cast<int> of a NaN in this build
          pwmRange_, onOff_, raw_, luv_, T_,
          redUv_, greenUv_, blueUv_, redLum_, greenLum_, blueLum_, maxLum_,
          redToGreenFit_, greenToBlueFit_, blueToRedFit_,
          out,      \* the duty cycle last written to each pin
          last,     \* the last call and its argument
          scen      \* progress of setRaw, setOnOff(false), setOnOff(true)

vars == << nanInt, pwmRange_, onOff_, raw_, luv_, T_,
           redUv_, greenUv_, blueUv_, redLum_, greenLum_, blueLum_, maxLum_,
           redToGreenFit_, greenToBlueFit_, blueToRedFit_, out, last, scen >>

Self ==
    [pwmRange_ |-> pwmRange_, onOff_ |-> onOff_, raw_ |-> raw_, luv_ |-> luv_,
     T_ |-> T_, redUv_ |-> redUv_, greenUv_ |-> greenUv_, blueUv_ |-> blueUv_,
     redLum_ |-> redLum_, greenLum_ |-> greenLum_, blueLum_ |-> blueLum_,
     maxLum_ |-> maxLum_, redToGreenFit_ |-> redToGreenFit_,
     greenToBlueFit_ |-> greenToBlueFit_, blueToRedFit_ |-> blueToRedFit_,
     out |-> out, nanInt |-> nanInt]

Holds(e) ==
    /\ pwmRange_ = e.pwmRange_ /\ onOff_ = e.onOff_ /\ raw_ = e.raw_
    /\ luv_ = e.luv_ /\ T_ = e.T_
    /\ redUv_ = e.redUv_ /\ greenUv_ = e.greenUv_ /\ blueUv_ = e.blueUv_
    /\ redLum_ = e.redLum_ /\ greenLum_ = e.greenLum_ /\ blueLum_ = e.blueLum_
    /\ maxLum_ = e.maxLum_ /\ redToGreenFit_ = e.redToGreenFit_
    /\ greenToBlueFit_ = e.greenToBlueFit_ /\ blueToRedFit_ = e.blueToRedFit_
    /\ out = e.out /\ nanInt = e.nanInt

Becomes(e) ==
    /\ pwmRange_' = e.pwmRange_ /\ onOff_' = e.onOff_ /\ raw_' = e.raw_
    /\ luv_' = e.luv_ /\ T_' = e.T_
    /\ redUv_' = e.redUv_ /\ greenUv_' = e.greenUv_ /\ blueUv_' = e.blueUv_
    /\ redLum_' = e.redLum_ /\ greenLum_' = e.greenLum_ /\ blueLum_' = e.blueLum_
    /\ maxLum_' = e.maxLum_ /\ redToGreenFit_' = e.redToGreenFit_
    /\ greenToBlueFit_' = e.greenToBlueFit_ /\ blueToRedFit_' = e.blueToRedFit_
    /\ out' = e.out /\ nanInt' = e.nanInt

Rgb(o) == [R |-> o["red"], G |-> o["green"], B |-> o["blue"]]
Zero3 == [R |-> 0, G |-> 0, B |-> 0]
Idle == [phase |-> 0, x |-> Zero3, duty |-> Zero3]

Init ==
    /\ \E n \in PwmRanges : \E i \in UBInts : \E e \in {LedEngine(n, i)} : Holds(e)
    /\ last = [op |-> "LedEngine", arg |-> pwmRange_]
    /\ scen = Idle

Call(e, op, arg) ==
    /\ Becomes(e)
    /\ last' = [op |-> op, arg |-> arg]

SetRaw ==
    \E r \in {RawSamples[i] : i \in 1..NumRaw} : \E e \in {setRaw(Self, r)} :
        /\ Call(e, "setRaw", r)
        /\ scen' = IF onOff_ THEN [phase |-> 1, x |-> r, duty |-> Rgb(e.out)] ELSE Idle

SetCie1976Ucs ==
    \E t \in {UcsSamples[i] : i \in 1..NumUcs} : \E e \in {setCie1976Ucs(Self, t)} :
        /\ Call(e, "setCie1976Ucs", t)
        /\ scen' = Idle

SetColorTemperature ==
    \E a \in {TempSamples[i] : i \in 1..NumTemp} : \E e \in {setColorTemperature(Self, a.L, a.T)} :
        /\ Call(e, "setColorTemperature", a)
        /\ scen' = Idle

Calibrate ==
    \E c \in {CalSamples[i] : i \in 1..NumCal} : \E e \in {calibrate(Self, c)} :
        /\ Call(e, "calibrate", c)
        /\ scen' = Idle

SetOnOff ==
    \E b \in BOOLEAN : \E e \in {setOnOff(Self, b)} :
        /\ Call(e, "setOnOff", b)
        /\ scen' = IF ~b /\ scen.phase = 1 THEN [scen EXCEPT !.phase = 2]
                   ELSE IF b /\ scen.phase = 2 THEN [scen EXCEPT !.phase = 3]
                   ELSE Idle

Next == SetRaw \/ SetCie1976Ucs \/ SetColorTemperature \/ Calibrate \/ SetOnOff

Spec == Init /\ [][Next]_vars

(***************************************************************************)
(* Properties.  A component of RawState, a float, is written x below; its  *)
(* duty cycle is the integer written to the pin.                           *)
(***************************************************************************)
\* half a step, and what the rounding of x and of x * n to float can add
Slack(n) == FAdd(Half, FMul(OfInt(n), Dec(2, -7)))

\* d is x limited to 0..1, times n, rounded to the nearest integer: the
\* product lies within half a step of d, as far as floats can tell (x finite)
IsDutyOf(d, x, n) ==
    /\ FGe(FMul(Limit01(x), OfInt(n)), FSub(OfInt(d), Slack(n)))
    /\ FLt(FMul(Limit01(x), OfInt(n)), FAdd(OfInt(d), Slack(n)))

\* C1: in every reachable state each component of RawState lies in [0, 1]
C1_RawStateInUnitRange ==
    \A c \in Channels : FGe(getRaw(Self)[c], Zero) /\ ~FGt(getRaw(Self)[c], One)

\* C2: setRaw is idempotent after quantization: with s the RawState read back
\* after setRaw(r), setRaw(s) leaves RawState equal to s, computes the same
\* duty cycles as setRaw(r) did and leaves the outputs as they are
C2_SetRawIdempotent ==
    last.op = "setRaw" =>
        /\ setRaw(Self, getRaw(Self)).raw_ = getRaw(Self)
        /\ Pwm(Self, Limited(getRaw(Self))) = Pwm(Self, Limited(last.arg))
        /\ setRaw(Self, getRaw(Self)).out = out

\* C2 happens: setRaw was called with the light on, quantization changed the
\* value it was given, and the duty cycles are on the pins
C2_Witness ==
    /\ last.op = "setRaw" /\ onOff_
    /\ getRaw(Self) # Limited(last.arg)
    /\ Rgb(out) = Pwm(Self, Limited(last.arg))
    /\ out["red"] > 0

\* C3: after setCie1976Ucs(target), getCie1976Ucs returns lightness
\* max(target.L, 0) and the target's u and v
C3_UcsReadBack ==
    last.op = "setCie1976Ucs" =>
        getCie1976Ucs(Self) = [L |-> IF FLt(last.arg.L, Zero) THEN Zero ELSE last.arg.L,
                               u |-> last.arg.u,
                               v |-> last.arg.v]

\* C4: calibrate called when the most recent setter was setRaw leaves RawState
\* and the outputs as they were
C4_CalibrateAfterSetRawKeepsRaw ==
    [][last.op = "setRaw" /\ last'.op = "calibrate" => raw_' = raw_ /\ out' = out]_vars

\* C5: after setColorTemperature(L, T) with L > 0 (and T a valid temperature),
\* calibrate(c) leaves the RawState that setColorTemperature(L, T) yields on
\* an engine whose calibration is already c
C5_CalibrateKeepsTemperatureIntent ==
    [][(/\ last.op = "setColorTemperature"
        /\ FGt(last.arg.L, Zero)
        /\ last.arg.T >= 1000
        /\ last'.op = "calibrate")
       => raw_' = setColorTemperature(store(Self, last'.arg), last.arg.L, last.arg.T).raw_]_vars

\* C6: after a setter that established lightness L1 > 0, setColorTemperature(L, T2)
\* with L <= 0 leaves the RawState of setColorTemperature(L1, T2)
C6_LightnessReused ==
    [][(/\ last.op \in {"setColorTemperature", "setCie1976Ucs"}
        /\ FGt(last.arg.L, Zero)
        /\ last'.op = "setColorTemperature"
        /\ ~FGt(last'.arg.L, Zero))
       => raw_' = setColorTemperature(Self, last.arg.L, last'.arg.T).raw_]_vars

\* C7: setCie1976Ucs(L, u, v) with L < 0 leaves the same RawState and outputs
\* as setCie1976Ucs(0, u, v) under the same calibration (the setter overwrites
\* RawState and the outputs, so the latter is computed from this state)
C7_NegativeLightnessIsZero ==
    last.op = "setCie1976Ucs" /\ FLt(last.arg.L, Zero) =>
        /\ raw_ = setCie1976Ucs(Self, [last.arg EXCEPT !.L = Zero]).raw_
        /\ out = setCie1976Ucs(Self, [last.arg EXCEPT !.L = Zero]).out

\* C8: with the light on, setRaw(x), setOnOff(false), setOnOff(true) put on the
\* red, green and blue pins the quantized duty cycles of x, then zero on all
\* three, then the same duty cycles again
C8_OffOnRestoresDuty ==
    /\ scen.phase \in {1, 3} =>
          /\ Rgb(out) = scen.duty
          /\ \A c \in Channels : IsDutyOf(scen.duty[c], scen.x[c], pwmRange_)
    /\ scen.phase = 2 => Rgb(out) = Zero3

\* C8 happens: the three calls were made, for an x with a component above 1,
\* and the duty cycles on the pins are not zero
C8_Witness ==
    /\ scen.phase = 3
    /\ FGt(scen.x.B, One)
    /\ out["red"] > 0 /\ out["blue"] = pwmRange_

\* C9: immediately after setRaw, PerceptualState and TemperatureState are both
\* the unset sentinel, whatever they held before
C9_SetRawUnsetsBoth ==
    last.op = "setRaw" =>
        getCie1976Ucs(Self) = UnsetLuv /\ getColorTemperature(Self) = UnsetT

\* C9 happens: setRaw was called with the light on and left both unset
C9_Witness ==
    /\ last.op = "setRaw" /\ onOff_ /\ out["green"] = pwmRange_
    /\ getCie1976Ucs(Self) = UnsetLuv /\ getColorTemperature(Self) = UnsetT

\* C10: setColorTemperature(L, T) with L > 0 followed directly by
\* getColorTemperature() returns T
C10_TemperatureReadBack ==
    last.op = "setColorTemperature" /\ FGt(last.arg.L, Zero) =>
        getColorTemperature(Self) = last.arg.T

\* C10 happens: setColorTemperature(75, 500) was called, and 500 is read back
C10_Witness ==
    /\ last.op = "setColorTemperature" /\ FGt(last.arg.L, Zero)
    /\ last.arg.T = 500
    /\ getColorTemperature(Self) = 500

\* C11: the constant that divides the achieved luma is the luminance at full
\* output under the current fluxes, redLum_ + greenLum_ + blueLum_, so that
\* full drive has achieved luma 1 (whenever that luminance is not zero)
C11_MaxLumFollowsFluxes ==
    /\ maxLum_ = AddF(AddF(redLum_, greenLum_), blueLum_)
    /\ FGt(AddF(AddF(redLum_, greenLum_), blueLum_), Zero)
          => Luma(Self, [R |-> One, G |-> One, B |-> One]) = One

\* C12: after setCie1976Ucs no channel of RawState exceeds 1, and whenever the
\* largest luminance-scaled channel is greater than 1, the three channels are
\* divided by it, so that the largest channel read back is exactly 1
C12_GamutLimit ==
    last.op = "setCie1976Ucs" =>
        \A scaled \in {Scaled(Self, last.arg, Recalled(Self, last.arg))} :
            /\ \A c \in Channels : ~FGt(getRaw(Self)[c], One)
            /\ FGt(MaxRaw(scaled), One) =>
                  /\ MaxRaw(getRaw(Self)) = One
                  /\ getRaw(Self) =
                        setRaw(Self, TimesDouble(scaled, FDiv(One, MaxRaw(scaled)))).raw_

\* C13: calibrate(c) called again with the same values leaves the same
\* RawState, cached temperature and perceptual values, and outputs after the
\* second call as after the first
C13_RecalibrationRepeatable ==
    last.op = "calibrate" =>
        \A e \in {calibrate(Self, last.arg)} :
            /\ getRaw(e) = getRaw(Self)
            /\ getColorTemperature(e) = getColorTemperature(Self)
            /\ getCie1976Ucs(e) = getCie1976Ucs(Self)
            /\ e.out = out

\* C13 happens: calibrate, with values other than the defaults, re-solved the
\* cached temperature 2700 with the light on
C13_Witness ==
    /\ last.op = "calibrate" /\ last.arg # DefaultCalibration
    /\ getColorTemperature(Self) = 2700
    /\ redLum_ = last.arg.redLum_ /\ FGt(redLum_, Zero)
    /\ onOff_ /\ out["green"] > 0

\* C14: immediately after construction the engine is off, the last duty cycle
\* written to each of the five pins is zero, and getColorTemperature returns
\* 1900
C14_AfterConstruction ==
    last.op = "LedEngine" =>
        /\ ~onOff_
        /\ \A p \in Pins : out[p] = 0
        /\ getColorTemperature(Self) = 1900

\* C14 happens: the engine was constructed with PWM range 1023 and the default
\* colour is in RawState
C14_Witness ==
    /\ last.op = "LedEngine" /\ last.arg = 1023
    /\ FGt(getRaw(Self).R, Zero) /\ FGt(getRaw(Self).G, Zero)

\* C15: setOnOff changes only the power flag and the outputs: a temperature
\* that is cached before setOnOff(true) or setOnOff(false) is cached, with the
\* same value, after it
C15_OnOffKeepsTemperature ==
    [][(/\ last'.op = "setOnOff"
        /\ getColorTemperature(Self) >= 1000
        /\ getColorTemperature(Self) # UnsetT)
       => T_' = T_]_vars

\* C16: the last duty cycle written to each of the red, green and blue pins is
\* an integer in 0..pwmRange_ that is RawState times pwmRange_ for that channel
\* when the engine is on, and 0 when it is off
C16_OutputsFollowRawState ==
    \A c \in Channels :
        /\ Rgb(out)[c] \in 0..pwmRange_
        /\ IF onOff_
           THEN IsDutyOf(Rgb(out)[c], getRaw(Self)[c], pwmRange_)
           ELSE Rgb(out)[c] = 0

====
